---- MODULE Spec2Model ----
(***************************************************************************)
(* Model of the minecharts control-plane API: the gin middleware chain of  *)
(* the /servers routes (JWT, API key, permission checks), the lifecycle    *)
(* handlers (create, stop, restart, start, delete, exec, expose) and the   *)
(* orchestration-platform objects they act on (volume claims, deployments, *)
(* pods, services).  Every platform call of a handler is one atomic step,  *)
(* so that concurrent requests interleave at the granularity of API calls. *)
(***************************************************************************)
EXTENDS Integers, Sequences, FiniteSets, TLC

\* ------------------------------------------------------------------ bounds
MaxTime == 2     \* distinct readings of the wall clock
MaxArrivals == 2 \* requests accepted in one run
MaxFaults == 1   \* transport failures of platform calls in one run

Req == {1, 2}
ServerNames == {"survival"}

\* ------------------------------------------------- configuration constants
DeploymentPrefix == "minecraft-server-"
PVCSuffix == "-pvc"
DefaultReplicas == 1
DefaultPort == 25565
SaveCommand == "mc-send-to-console save-all"

PermAdmin == 1
PermCreateServer == 2
PermDeleteServer == 4
PermStartServer == 8
PermStopServer == 16
PermRestartServer == 32
PermExecCommand == 64
PermViewServer == 128
PermAll == 255
PermReadOnly == PermViewServer

\* Timestamps: readings of the wall clock are 1, 2, ...; the zero value of
\* time.Time is earlier than every reading; a NULL column is no time at all.
ZeroTime == 0
NullTime == -1

\* --------------------------------------------------------- pure functions
RECURSIVE BitAnd(_, _)
BitAnd(a, b) ==
    IF a = 0 \/ b = 0 THEN 0
    ELSE (a % 2) * (b % 2) + 2 * BitAnd(a \div 2, b \div 2)

MutHasPermissionFlagOnly(perms, permission) == BitAnd(perms, permission) # 0

\* User.HasPermission: administrators pass every check.
HasPermission(perms, permission) ==
    IF BitAnd(perms, PermAdmin) # 0 THEN TRUE
    ELSE BitAnd(perms, permission) # 0

\* User.HasServerPermission: the owner of the server record passes the
\* per-server operational checks; administrator rights are never granted by
\* ownership.
HasServerPermission(uid, perms, ownerID, permission) ==
    \/ HasPermission(perms, permission)
    \/ (uid = ownerID /\ permission # PermAdmin)

DeploymentName(serverName) == DeploymentPrefix \o serverName
PVCNameOf(deploymentName) == deploymentName \o PVCSuffix
ServiceNameOf(deploymentName) == deploymentName \o "-svc"

\* ----------------------------------------------------------------- state
VARIABLES
    users,        \* Credential Store: user id -> [permissions, active]
    apiKeys,      \* Credential Store: rows [key, userID, expiresAt, lastUsed]
    servers,      \* Credential Store: set of [serverName, ownerID]
    dbType,       \* configured database backend, "sqlite" or "postgres"
    pvcs,         \* platform: names of the volume claims
    deployments,  \* platform: set of deployment objects
    pods,         \* platform: deployment names that have a running pod
    services,     \* platform: set of service objects
    rvNext,       \* platform: next resource version
    arrivals,     \* requests accepted so far
    faults,       \* platform calls that failed for transport reasons so far
    req           \* per worker: the request it is serving

store == <<users, apiKeys, servers, dbType>>
platform == <<pvcs, deployments, pods, services, rvNext>>
vars == <<users, apiKeys, servers, dbType, pvcs, deployments, pods, services, rvNext, arrivals, faults, req>>

NoObj == [name |-> "none"]

Kinds == {"create", "restart", "stop", "start", "delete", "exec", "expose"}

\* The routes of the /users group that read or write one user.
UserKinds == {"update", "deluser", "grant", "revoke"}

\* Routes with a :serverName parameter, guarded by RequireServerPermission.
ServerScoped(kind) == kind \in Kinds \ {"create"}

\* Permission each route of the /servers group asks for.
RoutePerm(kind) ==
    CASE kind = "create" -> PermCreateServer
      [] kind = "restart" -> PermRestartServer
      [] kind = "stop" -> PermStopServer
      [] kind = "start" -> PermStartServer
      [] kind = "delete" -> PermDeleteServer
      [] kind = "exec" -> PermExecCommand
      [] kind = "expose" -> PermCreateServer
      [] kind = "users" -> PermAdmin
      [] kind \in UserKinds -> PermAdmin

\* Middleware that follows JWTMiddleware in the route's group: the /servers
\* group goes on to APIKeyMiddleware, the /users group to RequirePermission,
\* the /apikeys group to its handler.
AfterJWT(kind) ==
    CASE kind = "users" -> "perm"
      [] kind \in UserKinds -> "perm"
      [] kind = "newkey" -> "k_new"
      [] OTHER -> "apikey"

\* First step of the handler registered for the route.
HandlerEntry(kind) ==
    CASE kind = "create" -> "c_bind"
      [] kind = "restart" -> "r_check"
      [] kind = "stop" -> "s_check"
      [] kind = "start" -> "st_check"
      [] kind = "delete" -> "d_dep"
      [] kind = "exec" -> "e_check"
      [] kind = "expose" -> "x_check"
      [] kind = "users" -> "u_handler"
      [] kind = "update" -> "up_get"
      [] kind = "deluser" -> "du_delete"
      [] kind = "grant" -> "gr_get"
      [] kind = "revoke" -> "rv_get"
      [] kind = "newkey" -> "k_new"

\* A header the middleware has not read yet.
Unread == "unread"

IdleReq ==
    [pc |-> "idle", kind |-> "none", name |-> "none", user |-> 0, status |-> 0,
     auth |-> [scheme |-> Unread], apiKey |-> Unread, via |-> "", db |-> <<>>,
     error |-> "",
     calls |-> <<>>, resp |-> {}, copy |-> NoObj, body |-> NoObj,
     solo |-> TRUE, peer |-> 0, pvcAtStart |-> FALSE, depAtStart |-> FALSE,
     principal |-> NoObj]

InFlight(q) == req[q].pc \notin {"idle", "done"}

\* A finished request is observable in exactly one state: its worker is
\* released before any other step is taken.  The release touches nothing
\* but the worker, so this order loses no interleaving of platform calls.
Ready == \A q \in Req : req[q].pc # "done"

At(r, pc) == Ready /\ req[r].pc = pc

Exists(objs, n) == \E o \in objs : o.name = n
Lookup(objs, n) == CHOOSE o \in objs : o.name = n

\* Record of one platform call made by a request.
Call(op, ok, fault) ==
    [op |-> op, ok |-> ok, fault |-> fault, arg |-> "", found |-> FALSE, at |-> 0]

Logged(rec, c) == [rec EXCEPT !.calls = Append(@, c)]

\* Record of one Credential Store call made by a request's middleware.
LoggedDB(rec, c) == [rec EXCEPT !.db = Append(@, c)]

\* c.JSON / c.AbortWithStatusJSON followed by return: the request is over.
Respond(rec, st, keys) == [rec EXCEPT !.pc = "done", !.status = st, !.resp = keys]

Goto(rec, pc) == [rec EXCEPT !.pc = pc]

\* An abort whose body is {"error": text}.
RespondError(rec, st, text) == [Respond(rec, st, {"error"}) EXCEPT !.error = text]

\* The deployment object CreateDeployment builds, as the platform stores it:
\* the platform gives every created object a UID of its own (here the
\* resource version of its creation), which no update changes.
NewDeployment(deploymentName, pvcName, rv) ==
    [name |-> deploymentName, app |-> deploymentName, replicas |-> DefaultReplicas,
     claim |-> pvcName, restartedAt |-> 0, rv |-> rv, uid |-> rv]

InitUsers ==
    (1 :> [permissions |-> PermAll, active |-> TRUE]) @@
    (2 :> [permissions |-> PermStopServer, active |-> TRUE]) @@
    (3 :> [permissions |-> PermReadOnly, active |-> TRUE]) @@
    (4 :> [permissions |-> PermAll, active |-> FALSE])

\* The platform holds either nothing or one server as a successful create
\* leaves it once its pod has started.
Init ==
    /\ users = InitUsers
    /\ apiKeys = {[key |-> "mcapi.k2", userID |-> 2, expiresAt |-> ZeroTime, lastUsed |-> NullTime]}
    /\ servers = {}
    /\ dbType = "sqlite"
    /\ \E created \in SUBSET ServerNames :
        /\ pvcs = {PVCNameOf(DeploymentName(n)) : n \in created}
        /\ deployments = {NewDeployment(DeploymentName(n), PVCNameOf(DeploymentName(n)), 1) : n \in created}
        /\ pods = {DeploymentName(n) : n \in created}
        /\ rvNext = 2
    /\ services = {}
    /\ arrivals = 0
    /\ faults = 0
    /\ req = [r \in Req |-> IdleReq]

\* ------------------------------------------------------- request arrival
\* One worker per inbound request: a free worker picks up a request for
\* one of the /servers routes.
Arrive(r) ==
    /\ At(r, "idle")
    /\ arrivals < MaxArrivals
    /\ \E k \in Kinds, n \in ServerNames :
        LET alone == \A q \in Req \ {r} : ~InFlight(q)
            fresh == [IdleReq EXCEPT !.pc = "jwt", !.kind = k, !.name = n,
                          !.solo = alone,
                          !.pvcAtStart = (PVCNameOf(DeploymentName(n)) \in pvcs),
                          !.depAtStart = Exists(deployments, DeploymentName(n))]
        IN req' = [q \in Req |->
                      IF q = r THEN fresh
                      ELSE IF InFlight(q) THEN [req[q] EXCEPT !.solo = FALSE]
                      ELSE req[q]]
    /\ arrivals' = arrivals + 1
    /\ UNCHANGED <<store, platform, faults>>

\* The response has been written: the worker is free for the next request.
Release(r) ==
    /\ req[r].pc = "done"
    /\ req' = [q \in Req |->
                  IF q = r THEN IdleReq
                  ELSE IF /\ InFlight(q)
                          /\ req[r].kind = "create" /\ req[q].kind = "create"
                          /\ req[q].name = req[r].name
                       THEN [req[q] EXCEPT !.peer = req[r].status]
                  ELSE req[q]]
    /\ UNCHANGED <<store, platform, arrivals, faults>>

\* Readings of the wall clock (time.Now).
Times == 1..MaxTime

\* A platform call fails either for the reason the platform gives (name
\* taken, object missing, stale version) or for a transport reason.
FaultChoices == IF faults < MaxFaults THEN BOOLEAN ELSE {FALSE}

Injected(fault) == faults' = IF fault THEN faults + 1 ELSE faults

\* ------------------------------------------------------------ middleware
\* Authorization headers a client may send.  A bearer token is either not
\* a JWT at all or carries the subject's user id, an expiry time, the
\* signing method named in its header and a signature that verifies under
\* that method or not.  The tokens GenerateJWT issues are HS256 tokens
\* signed with the configured secret; the others are what a client can make
\* up: a changed token, a token signed with an asymmetric key, a string that
\* is no token.
HMACMethods == {"HS256", "HS384", "HS512"}

IssuedTokens ==
    [sub : {1, 2, 3, 4, 5}, exp : {ZeroTime, MaxTime + 1}, sig : {"good"},
     alg : {"HS256"}, form : {"jwt"}]

ForgedTokens ==
    {[sub |-> 1, exp |-> MaxTime + 1, sig |-> "bad", alg |-> "HS256", form |-> "jwt"],
     [sub |-> 1, exp |-> ZeroTime, sig |-> "bad", alg |-> "HS256", form |-> "jwt"],
     [sub |-> 1, exp |-> MaxTime + 1, sig |-> "good", alg |-> "RS256", form |-> "jwt"],
     [sub |-> 1, exp |-> MaxTime + 1, sig |-> "good", alg |-> "HS256", form |-> "malformed"]}

Tokens == IssuedTokens \cup ForgedTokens

AuthHeaders == {[scheme |-> "none"], [scheme |-> "Basic"]}
                 \cup {[scheme |-> "Bearer", token |-> t] : t \in Tokens}

MutValidateJWTClaimsFirst(token, t) ==
    IF token.form # "jwt" THEN "invalid"
    ELSE IF token.alg \notin HMACMethods THEN "invalid"
    ELSE IF t >= token.exp THEN "expired"
    ELSE IF token.sig # "good" THEN "invalid"
    ELSE "ok"

\* ValidateJWT.  jwt.ParseWithClaims splits the string (a string that is no
\* token is an error), asks the key function for the key (which refuses
\* every method that is not HMAC), verifies the signature and only then
\* validates the claims: the token has expired when the time is not before
\* its expiry.  errors.Is(err, jwt.ErrTokenExpired) is ErrExpiredToken,
\* every other error is ErrInvalidToken.
ValidateJWT(token, t) ==
    IF token.form # "jwt" THEN "invalid"
    ELSE IF token.alg \notin HMACMethods THEN "invalid"
    ELSE IF token.sig # "good" THEN "invalid"
    ELSE IF t >= token.exp THEN "expired"
    ELSE "ok"

MutJWTMiddlewareSkipsAccountChecks(r) ==
    /\ At(r, "jwt")
    /\ \E h \in AuthHeaders, now \in Times :
        LET rec == [req[r] EXCEPT !.auth = h] IN
        req' = [req EXCEPT ![r] =
            IF h.scheme = "none"
                THEN RespondError(rec, 401, "Authorization header is required")
            ELSE IF h.scheme # "Bearer"
                THEN RespondError(rec, 401, "Authorization header format must be 'Bearer {token}'")
            ELSE IF ValidateJWT(h.token, now) = "expired"
                THEN RespondError(rec, 401, "Token has expired")
            ELSE IF ValidateJWT(h.token, now) # "ok"
                THEN RespondError(rec, 401, "Invalid token")
            ELSE [rec EXCEPT !.user = h.token.sub, !.via = "jwt",
                             !.principal = [permissions |-> PermAll, active |-> TRUE],
                             !.pc = AfterJWT(rec.kind)]]
    /\ UNCHANGED <<store, arrivals, platform, faults>>

\* JWTMiddleware: the token names the user, whose row is read from the
\* store (GetUserByID) and put in the request context for what follows.
JWTMiddleware(r) ==
    /\ At(r, "jwt")
    /\ \E h \in AuthHeaders, now \in Times :
        LET rec == [req[r] EXCEPT !.auth = h] IN
        req' = [req EXCEPT ![r] =
            IF h.scheme = "none"
                THEN RespondError(rec, 401, "Authorization header is required")
            ELSE IF h.scheme # "Bearer"
                THEN RespondError(rec, 401, "Authorization header format must be 'Bearer {token}'")
            ELSE IF ValidateJWT(h.token, now) = "expired"
                THEN RespondError(rec, 401, "Token has expired")
            ELSE IF ValidateJWT(h.token, now) # "ok"
                THEN RespondError(rec, 401, "Invalid token")
            ELSE IF h.token.sub \notin DOMAIN users
                THEN RespondError(rec, 401, "User not found")
            ELSE IF ~users[h.token.sub].active
                THEN RespondError(rec, 403, "User account is inactive")
            ELSE [rec EXCEPT !.user = h.token.sub, !.via = "jwt",
                             !.principal = users[h.token.sub],
                             !.pc = AfterJWT(rec.kind)]]
    /\ UNCHANGED <<store, arrivals, platform, faults>>

\* X-API-Key headers a client may send: none, a stored key, an unknown key.
KeyHeaders == {""} \cup {a.key : a \in apiKeys} \cup {"mcapi.unknown"}

\* The expiry test of GetAPIKey: the sqlite backend tests the pointer for
\* nil, the postgres backend tests the time for its zero value.
KeyExpired(db, expiresAt, now) ==
    IF db = "sqlite" THEN expiresAt # NullTime /\ expiresAt < now
    ELSE expiresAt # ZeroTime /\ expiresAt < now

\* Outcome of GetAPIKey.  The row is scanned into an APIKey whose LastUsed
\* is a time.Time, which cannot take a NULL column; then last_used is
\* written, and a failed write is returned as the lookup's error; then the
\* expiry is tested (IsZero on a nil pointer panics).
GetAPIKey(db, rows, k, now, fault) ==
    IF ~\E a \in rows : a.key = k THEN "not_found"
    ELSE LET row == CHOOSE a \in rows : a.key = k IN
         IF row.lastUsed = NullTime THEN "scan_error"
         ELSE IF fault THEN "update_failed"
         ELSE IF db = "postgres" /\ row.expiresAt = NullTime THEN "panic"
         ELSE IF KeyExpired(db, row.expiresAt, now) THEN "expired"
         ELSE "ok"

\* UPDATE api_keys SET last_used = now
TouchKey(rows, k, now) ==
    {IF a.key = k THEN [a EXCEPT !.lastUsed = now] ELSE a : a \in rows}

\* The middleware's own expiry test reads a "now" value from the request
\* context, which nothing puts there: for a nil ExpiresAt the IsZero call
\* panics, for a zero one the test is skipped, for any other the type
\* assertion on the missing value panics.
ExpiryTestPanics(expiresAt) == expiresAt # ZeroTime

APIKeyMiddleware(r) ==
    /\ At(r, "apikey")
    /\ LET rec == req[r] IN
       IF rec.user # 0
       THEN /\ req' = [req EXCEPT ![r] = Goto(rec, "perm")]
            /\ UNCHANGED <<apiKeys, faults>>
       ELSE \E k \in KeyHeaders, now \in Times :
            \E fault \in IF \E a \in apiKeys : a.key = k /\ a.lastUsed # NullTime
                          THEN FaultChoices ELSE {FALSE} :
              LET out == GetAPIKey(dbType, apiKeys, k, now, fault)
                  row == CHOOSE a \in apiKeys : a.key = k
                  read == [rec EXCEPT !.apiKey = k]
                  scanned == IF out \in {"not_found", "scan_error"} THEN read
                             ELSE [read EXCEPT !.copy = row]
                  logged == LoggedDB(scanned, [Call("GetAPIKey", out = "ok", fault) EXCEPT
                                                !.arg = out, !.at = now])
              IN /\ Injected(fault)
                 /\ apiKeys' = IF k # "" /\ out \in {"ok", "expired", "panic"}
                                THEN TouchKey(apiKeys, k, now) ELSE apiKeys
                 /\ req' = [req EXCEPT ![r] =
                        IF k = "" THEN Respond(read, 401, {"error"})
                        ELSE IF out = "panic" THEN Respond(logged, 500, {})
                        ELSE IF out # "ok" THEN Respond(logged, 401, {"error"})
                        ELSE IF ExpiryTestPanics(row.expiresAt) THEN Respond(logged, 500, {})
                        ELSE IF row.userID \notin DOMAIN users THEN Respond(logged, 401, {"error"})
                        ELSE IF ~users[row.userID].active THEN Respond(logged, 403, {"error"})
                        ELSE [logged EXCEPT !.user = row.userID, !.via = "key",
                                            !.principal = users[row.userID],
                                            !.pc = "perm"]]
    /\ UNCHANGED <<users, servers, dbType, arrivals, platform>>

MutRequirePermissionOwnerPasses(r) ==
    /\ At(r, "perm")
    /\ req[r].kind \in {"create", "users"}
    /\ LET rec == req[r] IN
       req' = [req EXCEPT ![r] =
           IF rec.user = 0 THEN Respond(rec, 401, {"error"})
           ELSE IF /\ ~HasPermission(rec.principal.permissions, RoutePerm(rec.kind))
                   /\ ~\E s \in servers : s.ownerID = rec.user
                THEN Respond(rec, 403, {"error"})
           ELSE Goto(rec, HandlerEntry(rec.kind))]
    /\ UNCHANGED <<store, arrivals, platform, faults>>

\* The user tested is the one the authenticating middleware put in the
\* request context.
RequirePermission(r) ==
    /\ At(r, "perm")
    /\ req[r].kind \in {"create", "users"} \cup UserKinds
    /\ LET rec == req[r] IN
       req' = [req EXCEPT ![r] =
           IF rec.user = 0 THEN Respond(rec, 401, {"error"})
           ELSE IF ~HasPermission(rec.principal.permissions, RoutePerm(rec.kind))
                THEN Respond(rec, 403, {"error"})
           ELSE Goto(rec, HandlerEntry(rec.kind))]
    /\ UNCHANGED <<store, arrivals, platform, faults>>

MutRequireServerPermissionNoAbort(r) ==
    /\ At(r, "perm")
    /\ ServerScoped(req[r].kind)
    /\ req' = [req EXCEPT ![r] =
           IF req[r].user = 0 THEN Respond(req[r], 401, {"error"})
           ELSE Goto(req[r], HandlerEntry(req[r].kind))]
    /\ UNCHANGED <<store, arrivals, platform, faults>>

MutRequireServerPermissionIgnoreOwner(r) ==
    /\ At(r, "perm")
    /\ ServerScoped(req[r].kind)
    /\ \E fault \in IF \E s \in servers : s.serverName = req[r].name
                     THEN FaultChoices ELSE {FALSE} :
       LET rec == req[r]
           found == ~fault /\ \E s \in servers : s.serverName = rec.name
           server == CHOOSE s \in servers : s.serverName = rec.name
           perms == rec.principal.permissions
           looked == LoggedDB(IF found THEN [rec EXCEPT !.copy = server] ELSE rec,
                              Call("GetServerByName", found, fault))
       IN
       /\ Injected(IF rec.user = 0 THEN FALSE ELSE fault)
       /\ req' = [req EXCEPT ![r] =
           IF rec.user = 0 THEN Respond(rec, 401, {"error"})
           ELSE IF ~found
                THEN IF ~HasPermission(perms, RoutePerm(rec.kind))
                     THEN Respond(looked, 403, {"error"})
                     ELSE Goto(looked, HandlerEntry(rec.kind))
           ELSE IF ~HasPermission(perms, RoutePerm(rec.kind))
                THEN Respond(looked, 403, {"error"})
           ELSE Goto(looked, HandlerEntry(rec.kind))]
    /\ UNCHANGED <<store, arrivals, platform>>

MutRequireServerPermissionDenyUnresolved(r) ==
    /\ At(r, "perm")
    /\ ServerScoped(req[r].kind)
    /\ \E fault \in IF \E s \in servers : s.serverName = req[r].name
                     THEN FaultChoices ELSE {FALSE} :
       LET rec == req[r]
           found == ~fault /\ \E s \in servers : s.serverName = rec.name
           server == CHOOSE s \in servers : s.serverName = rec.name
           perms == rec.principal.permissions
           looked == LoggedDB(IF found THEN [rec EXCEPT !.copy = server] ELSE rec,
                              Call("GetServerByName", found, fault))
       IN
       /\ Injected(IF rec.user = 0 THEN FALSE ELSE fault)
       /\ req' = [req EXCEPT ![r] =
           IF rec.user = 0 THEN Respond(rec, 401, {"error"})
           ELSE IF ~found
                THEN Respond(looked, 403, {"error"})
           ELSE IF ~HasServerPermission(rec.user, perms, server.ownerID, RoutePerm(rec.kind))
                THEN Respond(looked, 403, {"error"})
           ELSE Goto(looked, HandlerEntry(rec.kind))]
    /\ UNCHANGED <<store, arrivals, platform>>

\* GetServerByName fails when no row has the name and when the query
\* itself fails; either way the middleware falls back to HasPermission.
RequireServerPermission(r) ==
    /\ At(r, "perm")
    /\ ServerScoped(req[r].kind)
    /\ \E fault \in IF \E s \in servers : s.serverName = req[r].name
                     THEN FaultChoices ELSE {FALSE} :
       LET rec == req[r]
           found == ~fault /\ \E s \in servers : s.serverName = rec.name
           server == CHOOSE s \in servers : s.serverName = rec.name
           perms == rec.principal.permissions
           looked == LoggedDB(IF found THEN [rec EXCEPT !.copy = server] ELSE rec,
                              Call("GetServerByName", found, fault))
       IN
       /\ Injected(IF rec.user = 0 THEN FALSE ELSE fault)
       /\ req' = [req EXCEPT ![r] =
           IF rec.user = 0 THEN Respond(rec, 401, {"error"})
           ELSE IF ~found
                THEN IF ~HasPermission(perms, RoutePerm(rec.kind))
                     THEN Respond(looked, 403, {"error"})
                     ELSE Goto(looked, HandlerEntry(rec.kind))
           ELSE IF ~HasServerPermission(rec.user, perms, server.ownerID, RoutePerm(rec.kind))
                THEN Respond(looked, 403, {"error"})
           ELSE Goto(looked, HandlerEntry(rec.kind))]
    /\ UNCHANGED <<store, arrivals, platform>>

\* ------------------------------------------------ kubernetes helper package
\* CheckDeploymentExists: any error of the lookup is answered 404.
CheckDeploymentExists(r, nextpc) ==
    \E fault \in FaultChoices :
        LET rec == req[r]
            ok == ~fault /\ Exists(deployments, DeploymentName(rec.name))
            logged == Logged(rec, Call("GetDeployment", ok, fault))
        IN /\ Injected(fault)
           /\ req' = [req EXCEPT ![r] =
                  IF ok THEN Goto(logged, nextpc)
                  ELSE Respond(logged, 404, {"error"})]
           /\ UNCHANGED <<store, arrivals, platform>>

\* GetMinecraftPod: lists the pods labelled app=<deployment>; no pod is
\* (nil, nil).  onNone is the step taken with a nil pod, "" when the
\* handler answers 500 for it.
GetMinecraftPod(r, onPod, onNone) ==
    \E fault \in FaultChoices :
        LET rec == req[r]
            found == ~fault /\ DeploymentName(rec.name) \in pods
            logged == Logged(rec, [Call("ListPods", ~fault, fault) EXCEPT !.found = found])
        IN /\ Injected(fault)
           /\ req' = [req EXCEPT ![r] =
                  IF fault THEN Respond(logged, 500, {"error"})
                  ELSE IF found THEN Goto(logged, onPod)
                  ELSE IF onNone = "" THEN Respond(logged, 500, {"error"})
                  ELSE Goto(logged, onNone)]
           /\ UNCHANGED <<store, arrivals, platform>>

\* ExecuteCommandInPod: the command stream fails when the pod is gone or
\* the stream breaks.
ExecOk(rec, fault) == ~fault /\ DeploymentName(rec.name) \in pods

ExecCall(command, ok, fault) == [Call("Exec", ok, fault) EXCEPT !.arg = command]

\* First half of SetDeploymentReplicas / RestartDeployment: Get.
GetForUpdate(r, nextpc, errKeys) ==
    \E fault \in FaultChoices :
        LET rec == req[r]
            dn == DeploymentName(rec.name)
            ok == ~fault /\ Exists(deployments, dn)
            logged == Logged(rec, Call("GetDeployment", ok, fault))
        IN /\ Injected(fault)
           /\ req' = [req EXCEPT ![r] =
                  IF ok THEN [Goto(logged, nextpc) EXCEPT !.copy = Lookup(deployments, dn)]
                  ELSE Respond(logged, 500, errKeys)]
           /\ UNCHANGED <<store, arrivals, platform>>

MutUpdateDeploymentNoVersionCheck(r, obj, okKeys, errKeys) ==
    \E fault \in FaultChoices :
        LET rec == req[r]
            ok == ~fault /\ Exists(deployments, obj.name)
            logged == [Logged(rec, Call("UpdateDeployment", ok, fault)) EXCEPT !.copy = NoObj]
        IN /\ Injected(fault)
           /\ deployments' =
                  IF ok THEN (deployments \ {Lookup(deployments, obj.name)})
                                 \cup {[obj EXCEPT !.rv = rvNext]}
                  ELSE deployments
           /\ rvNext' = IF ok THEN rvNext + 1 ELSE rvNext
           /\ req' = [req EXCEPT ![r] =
                  IF ok THEN Respond(logged, 200, okKeys)
                  ELSE Respond(logged, 500, errKeys)]
           /\ UNCHANGED <<store, arrivals, pvcs, pods, services>>

\* Second half: Update of the modified copy.  The platform rejects an
\* update whose resourceVersion is not the stored one.
UpdateDeployment(r, obj, okKeys, errKeys) ==
    \E fault \in FaultChoices :
        LET rec == req[r]
            ok == /\ ~fault
                  /\ Exists(deployments, obj.name)
                  /\ Lookup(deployments, obj.name).rv = obj.rv
            logged == [Logged(rec, Call("UpdateDeployment", ok, fault)) EXCEPT !.copy = NoObj]
        IN /\ Injected(fault)
           /\ deployments' =
                  IF ok THEN (deployments \ {Lookup(deployments, obj.name)})
                                 \cup {[obj EXCEPT !.rv = rvNext]}
                  ELSE deployments
           /\ rvNext' = IF ok THEN rvNext + 1 ELSE rvNext
           /\ req' = [req EXCEPT ![r] =
                  IF ok THEN Respond(logged, 200, okKeys)
                  ELSE Respond(logged, 500, errKeys)]
           /\ UNCHANGED <<store, arrivals, pvcs, pods, services>>

\* ------------------------------------------- StartMinecraftServerHandler
CreateBind(r) ==
    /\ At(r, "c_bind")
    /\ \E valid \in BOOLEAN :
        req' = [req EXCEPT ![r] =
            IF valid THEN Goto(req[r], "c_pvc_get")
            ELSE Respond(req[r], 400, {"error"})]
    /\ UNCHANGED <<store, arrivals, platform, faults>>

\* EnsurePVC, lookup: any error of the lookup leads to the create.
EnsurePVCGet(r) ==
    /\ At(r, "c_pvc_get")
    /\ \E fault \in FaultChoices :
        LET rec == req[r]
            ok == ~fault /\ PVCNameOf(DeploymentName(rec.name)) \in pvcs
            logged == Logged(rec, Call("GetPVC", ok, fault))
        IN Injected(fault) /\ req' = [req EXCEPT ![r] =
               IF ok THEN Goto(logged, "c_dep") ELSE Goto(logged, "c_pvc_create")]
    /\ UNCHANGED <<store, arrivals, platform>>

\* EnsurePVC, create: the platform refuses a name that is taken.
EnsurePVCCreate(r) ==
    /\ At(r, "c_pvc_create")
    /\ \E fault \in FaultChoices :
        LET rec == req[r]
            pn == PVCNameOf(DeploymentName(rec.name))
            ok == ~fault /\ pn \notin pvcs
            logged == Logged(rec, Call("CreatePVC", ok, fault))
        IN /\ Injected(fault)
           /\ pvcs' = IF ok THEN pvcs \cup {pn} ELSE pvcs
           /\ req' = [req EXCEPT ![r] =
                  IF ok THEN Goto(logged, "c_dep")
                  ELSE Respond(logged, 500, {"error"})]
    /\ UNCHANGED <<store, arrivals, deployments, pods, services, rvNext>>

MutCreateDeploymentRollbackAlways(r) ==
    /\ At(r, "c_dep")
    /\ \E fault \in FaultChoices :
        LET rec == req[r]
            dn == DeploymentName(rec.name)
            ok == ~fault /\ ~Exists(deployments, dn)
            logged == Logged(rec, Call("CreateDeployment", ok, fault))
        IN /\ Injected(fault)
           /\ deployments' = IF ok THEN deployments \cup {NewDeployment(dn, PVCNameOf(dn), rvNext)}
                             ELSE deployments
           /\ rvNext' = IF ok THEN rvNext + 1 ELSE rvNext
           /\ pvcs' = IF ok THEN pvcs ELSE pvcs \ {PVCNameOf(dn)}
           /\ req' = [req EXCEPT ![r] =
                  IF ok THEN Respond(logged, 200, {"message", "deploymentName", "pvcName"})
                  ELSE Respond(Logged(logged, Call("DeletePVC", PVCNameOf(dn) \in pvcs, FALSE)),
                               500, {"error"})]
    /\ UNCHANGED <<store, arrivals, pods, services>>

\* CreateDeployment and the handler's two endings.
CreateDeploymentStep(r) ==
    /\ At(r, "c_dep")
    /\ \E fault \in FaultChoices :
        LET rec == req[r]
            dn == DeploymentName(rec.name)
            ok == ~fault /\ ~Exists(deployments, dn)
            logged == Logged(rec, Call("CreateDeployment", ok, fault))
        IN /\ Injected(fault)
           /\ deployments' = IF ok THEN deployments \cup {NewDeployment(dn, PVCNameOf(dn), rvNext)}
                             ELSE deployments
           /\ rvNext' = IF ok THEN rvNext + 1 ELSE rvNext
           /\ req' = [req EXCEPT ![r] =
                  IF ok THEN Respond(logged, 200, {"message", "deploymentName", "pvcName"})
                  ELSE Respond(logged, 500, {"error"})]
    /\ UNCHANGED <<store, arrivals, pvcs, pods, services>>

\* -------------------------------------------- StopMinecraftServerHandler
StopCheck(r) ==
    /\ At(r, "s_check")
    /\ CheckDeploymentExists(r, "s_pod")

\* A nil pod skips the save and goes on to the scale-down.
StopGetPod(r) ==
    /\ At(r, "s_pod")
    /\ GetMinecraftPod(r, "s_save", "s_get")

MutStopSaveIgnoreError(r) ==
    /\ At(r, "s_save")
    /\ \E fault \in FaultChoices :
        LET rec == req[r]
            ok == ExecOk(rec, fault)
            logged == Logged(rec, ExecCall(SaveCommand, ok, fault))
        IN Injected(fault) /\ req' = [req EXCEPT ![r] = Goto(logged, "s_get")]
    /\ UNCHANGED <<store, arrivals, platform>>

StopSave(r) ==
    /\ At(r, "s_save")
    /\ \E fault \in FaultChoices :
        LET rec == req[r]
            ok == ExecOk(rec, fault)
            logged == Logged(rec, ExecCall(SaveCommand, ok, fault))
        IN Injected(fault) /\ req' = [req EXCEPT ![r] =
               IF ok THEN Goto(logged, "s_get")
               ELSE Respond(logged, 500, {"error", "deploymentName"})]
    /\ UNCHANGED <<store, arrivals, platform>>

StopScaleGet(r) ==
    /\ At(r, "s_get")
    /\ GetForUpdate(r, "s_upd", {"error", "deploymentName"})

MutStopScaleUpdateRemovesClaim(r) ==
    /\ At(r, "s_upd")
    /\ \E fault \in FaultChoices :
        LET rec == req[r]
            obj == [rec.copy EXCEPT !.replicas = 0]
            ok == /\ ~fault
                  /\ Exists(deployments, obj.name)
                  /\ Lookup(deployments, obj.name).rv = obj.rv
            logged == [Logged(rec, Call("UpdateDeployment", ok, fault)) EXCEPT !.copy = NoObj]
        IN /\ Injected(fault)
           /\ deployments' =
                  IF ok THEN (deployments \ {Lookup(deployments, obj.name)})
                                 \cup {[obj EXCEPT !.rv = rvNext]}
                  ELSE deployments
           /\ rvNext' = IF ok THEN rvNext + 1 ELSE rvNext
           /\ pvcs' = pvcs \ {obj.claim}
           /\ req' = [req EXCEPT ![r] =
                  IF ok THEN Respond(logged, 200, {"message", "deploymentName"})
                  ELSE Respond(logged, 500, {"error", "deploymentName"})]
           /\ UNCHANGED <<store, arrivals, pods, services>>

\* SetDeploymentReplicas(namespace, deploymentName, 0)
StopScaleUpdate(r) ==
    /\ At(r, "s_upd")
    /\ UpdateDeployment(r, [req[r].copy EXCEPT !.replicas = 0],
                        {"message", "deploymentName"}, {"error", "deploymentName"})

\* ----------------------------------------- RestartMinecraftServerHandler
RestartCheck(r) ==
    /\ At(r, "r_check")
    /\ CheckDeploymentExists(r, "r_pod")

MutRestartGetPodSkipSave(r) ==
    /\ At(r, "r_pod")
    /\ GetMinecraftPod(r, "r_save", "r_get")

\* A lookup error and a nil pod both answer 500.
RestartGetPod(r) ==
    /\ At(r, "r_pod")
    /\ GetMinecraftPod(r, "r_save", "")

\* SaveWorld
RestartSave(r) ==
    /\ At(r, "r_save")
    /\ \E fault \in FaultChoices :
        LET rec == req[r]
            ok == ExecOk(rec, fault)
            logged == Logged(rec, ExecCall(SaveCommand, ok, fault))
        IN Injected(fault) /\ req' = [req EXCEPT ![r] =
               IF ok THEN Goto(logged, "r_get")
               ELSE Respond(logged, 500, {"error", "deploymentName"})]
    /\ UNCHANGED <<store, arrivals, platform>>

RestartGet(r) ==
    /\ At(r, "r_get")
    /\ GetForUpdate(r, "r_upd", {"error", "deploymentName"})

MutRestartUpdateRecreates(r) ==
    /\ At(r, "r_upd")
    /\ \E now \in Times :
        LET dn == DeploymentName(req[r].name) IN
        UpdateDeployment(r, [NewDeployment(dn, PVCNameOf(dn), rvNext) EXCEPT
                                 !.restartedAt = now, !.rv = req[r].copy.rv],
                         {"message", "deploymentName", "save_stdout", "save_stderr"},
                         {"error", "deploymentName"})

\* RestartDeployment stamps the pod template with the current time.
RestartUpdate(r) ==
    /\ At(r, "r_upd")
    /\ \E now \in Times :
        UpdateDeployment(r, [req[r].copy EXCEPT !.restartedAt = now],
                         {"message", "deploymentName", "save_stdout", "save_stderr"},
                         {"error", "deploymentName"})

\* ------------------------------------------------ StartStoppedServerHandler
StartCheck(r) ==
    /\ At(r, "st_check")
    /\ CheckDeploymentExists(r, "st_get")

StartScaleGet(r) ==
    /\ At(r, "st_get")
    /\ GetForUpdate(r, "st_upd", {"error", "deploymentName"})

MutStartScaleUpdateKeepsCount(r) ==
    /\ At(r, "st_upd")
    /\ UpdateDeployment(r, req[r].copy,
                        {"message", "deploymentName"}, {"error", "deploymentName"})

\* SetDeploymentReplicas(namespace, deploymentName, 1)
StartScaleUpdate(r) ==
    /\ At(r, "st_upd")
    /\ UpdateDeployment(r, [req[r].copy EXCEPT !.replicas = 1],
                        {"message", "deploymentName"}, {"error", "deploymentName"})

\* ------------------------------------------ DeleteMinecraftServerHandler
\* Response body of the delete handler.
DeleteResponse == {"message", "deploymentName", "pvcName"}

MutDeleteDeploymentAbortOnError(r) ==
    /\ At(r, "d_dep")
    /\ \E fault \in FaultChoices :
        LET rec == req[r]
            dn == DeploymentName(rec.name)
            ok == ~fault /\ Exists(deployments, dn)
            logged == Logged(rec, Call("DeleteDeployment", ok, fault))
        IN /\ Injected(fault)
           /\ deployments' = IF ok THEN deployments \ {Lookup(deployments, dn)} ELSE deployments
           /\ req' = [req EXCEPT ![r] =
                  IF ok THEN Goto(logged, "d_pvc") ELSE Respond(logged, 500, {"error"})]
    /\ UNCHANGED <<store, arrivals, pvcs, pods, services, rvNext>>

\* DeleteDeployment: an error is logged as a warning and the handler goes on.
DeleteDeploymentStep(r) ==
    /\ At(r, "d_dep")
    /\ \E fault \in FaultChoices :
        LET rec == req[r]
            dn == DeploymentName(rec.name)
            ok == ~fault /\ Exists(deployments, dn)
            logged == Logged(rec, Call("DeleteDeployment", ok, fault))
        IN /\ Injected(fault)
           /\ deployments' = IF ok THEN deployments \ {Lookup(deployments, dn)} ELSE deployments
           /\ req' = [req EXCEPT ![r] = Goto(logged, "d_pvc")]
    /\ UNCHANGED <<store, arrivals, pvcs, pods, services, rvNext>>

MutDeletePVCStepKeepsClaim(r) ==
    /\ At(r, "d_pvc")
    /\ req' = [req EXCEPT ![r] = Goto(req[r], "d_svc")]
    /\ UNCHANGED <<store, arrivals, platform, faults>>

DeletePVCStep(r) ==
    /\ At(r, "d_pvc")
    /\ \E fault \in FaultChoices :
        LET rec == req[r]
            pn == PVCNameOf(DeploymentName(rec.name))
            ok == ~fault /\ pn \in pvcs
            logged == Logged(rec, Call("DeletePVC", ok, fault))
        IN /\ Injected(fault)
           /\ pvcs' = IF ok THEN pvcs \ {pn} ELSE pvcs
           /\ req' = [req EXCEPT ![r] = Goto(logged, "d_svc")]
    /\ UNCHANGED <<store, arrivals, deployments, pods, services, rvNext>>

DeleteServiceStep(r) ==
    /\ At(r, "d_svc")
    /\ \E fault \in FaultChoices :
        LET rec == req[r]
            sn == ServiceNameOf(DeploymentName(rec.name))
            ok == ~fault /\ Exists(services, sn)
            logged == Logged(rec, Call("DeleteService", ok, fault))
        IN /\ Injected(fault)
           /\ services' = IF ok THEN services \ {Lookup(services, sn)} ELSE services
           /\ req' = [req EXCEPT ![r] = Respond(logged, 200, DeleteResponse)]
    /\ UNCHANGED <<store, arrivals, pvcs, deployments, pods, rvNext>>

\* --------------------------------------------------- ExecCommandHandler
ExecCheck(r) ==
    /\ At(r, "e_check")
    /\ CheckDeploymentExists(r, "e_pod")

ExecGetPod(r) ==
    /\ At(r, "e_pod")
    /\ GetMinecraftPod(r, "e_bind", "")

Commands == {"say hi"}

ExecBind(r) ==
    /\ At(r, "e_bind")
    /\ \/ req' = [req EXCEPT ![r] = Respond(req[r], 400, {"error"})]
       \/ \E c \in Commands :
            req' = [req EXCEPT ![r] = [Goto(req[r], "e_exec") EXCEPT !.body = [command |-> c]]]
    /\ UNCHANGED <<store, arrivals, platform, faults>>

ExecRun(r) ==
    /\ At(r, "e_exec")
    /\ \E fault \in FaultChoices :
        LET rec == req[r]
            ok == ExecOk(rec, fault)
            logged == Logged(rec, ExecCall("mc-send-to-console " \o rec.body.command, ok, fault))
        IN Injected(fault) /\ req' = [req EXCEPT ![r] =
               IF ok THEN Respond(logged, 200, {"stdout", "stderr", "command"})
               ELSE Respond(logged, 500, {"error", "stderr", "command"})]
    /\ UNCHANGED <<store, arrivals, platform>>

\* --------------------------------------------- ExposeMinecraftServerHandler
ExposeBodies ==
    { [json |-> FALSE, exposureType |-> "", domain |-> "", port |-> 0],
      [json |-> TRUE, exposureType |-> "Ingress", domain |-> "", port |-> 0],
      [json |-> TRUE, exposureType |-> "MCRouter", domain |-> "", port |-> 0],
      [json |-> TRUE, exposureType |-> "MCRouter", domain |-> "mc.example.com", port |-> 0],
      [json |-> TRUE, exposureType |-> "ClusterIP", domain |-> "", port |-> 0],
      [json |-> TRUE, exposureType |-> "NodePort", domain |-> "", port |-> 25566],
      [json |-> TRUE, exposureType |-> "LoadBalancer", domain |-> "", port |-> 0] }

ExposureTypes == {"ClusterIP", "NodePort", "LoadBalancer", "MCRouter"}

\* The service type the handler's switch picks for an exposure type.
ServiceTypeFor(exposureType) ==
    CASE exposureType = "NodePort" -> "NodePort"
      [] exposureType = "LoadBalancer" -> "LoadBalancer"
      [] OTHER -> "ClusterIP"

\* The mc-router annotation: the domain for MCRouter, none otherwise.
AnnotationFor(body) == IF body.exposureType = "MCRouter" THEN body.domain ELSE ""

MutNewServiceNamedByType(deploymentName, serviceType, port, annotation) ==
    [name |-> deploymentName \o "-" \o serviceType, app |-> deploymentName,
     type |-> serviceType, port |-> port, annotation |-> annotation]

\* The service object CreateService builds.
NewService(deploymentName, serviceType, port, annotation) ==
    [name |-> deploymentName \o "-svc", app |-> deploymentName,
     type |-> serviceType, port |-> port, annotation |-> annotation]

ExposeCheck(r) ==
    /\ At(r, "x_check")
    /\ CheckDeploymentExists(r, "x_bind")

\* Body binding, validation of the exposure type and domain, default port.
ExposeBind(r) ==
    /\ At(r, "x_bind")
    /\ \E b \in ExposeBodies :
        req' = [req EXCEPT ![r] =
            IF ~b.json THEN Respond(req[r], 400, {"error"})
            ELSE IF b.exposureType \notin ExposureTypes THEN Respond(req[r], 400, {"error"})
            ELSE IF b.exposureType = "MCRouter" /\ b.domain = "" THEN Respond(req[r], 400, {"error"})
            ELSE [Goto(req[r], "x_del") EXCEPT
                     !.body = [b EXCEPT !.port = IF b.port <= 0 THEN DefaultPort ELSE b.port]]]
    /\ UNCHANGED <<store, arrivals, platform, faults>>

\* Exposure type a service object stands for.
ModeOf(svc) == IF svc.annotation # "" THEN "MCRouter" ELSE svc.type

\* Cleanup of the existing service; its error is ignored.  The call record
\* notes the exposure type of the service that was removed.
ExposeDelete(r) ==
    /\ At(r, "x_del")
    /\ \E fault \in FaultChoices :
        LET rec == req[r]
            sn == ServiceNameOf(DeploymentName(rec.name))
            ok == ~fault /\ Exists(services, sn)
            logged == Logged(rec, [Call("DeleteService", ok, fault) EXCEPT
                                      !.arg = IF ok THEN ModeOf(Lookup(services, sn)) ELSE ""])
        IN /\ Injected(fault)
           /\ services' = IF ok THEN services \ {Lookup(services, sn)} ELSE services
           /\ req' = [req EXCEPT ![r] = Goto(logged, "x_create")]
    /\ UNCHANGED <<store, arrivals, pvcs, deployments, pods, rvNext>>

\* Response keys of a successful expose, by exposure type.
ExposeResponse(exposureType) ==
    {"message", "serviceName", "exposureType", "serviceType"} \cup
    (CASE exposureType = "NodePort" -> {"nodePort"}
       [] exposureType = "LoadBalancer" -> {"externalIP", "note"}
       [] exposureType = "MCRouter" -> {"domain", "note"}
       [] OTHER -> {})

ExposeCreate(r) ==
    /\ At(r, "x_create")
    /\ \E fault \in FaultChoices :
        LET rec == req[r]
            svc == NewService(DeploymentName(rec.name), ServiceTypeFor(rec.body.exposureType),
                              rec.body.port, AnnotationFor(rec.body))
            ok == ~fault /\ ~Exists(services, svc.name)
            logged == Logged(rec, Call("CreateService", ok, fault))
        IN /\ Injected(fault)
           /\ services' = IF ok THEN services \cup {svc} ELSE services
           /\ req' = [req EXCEPT ![r] =
                  IF ok THEN Respond(logged, 200, ExposeResponse(rec.body.exposureType))
                  ELSE Respond(logged, 500, {"error"})]
    /\ UNCHANGED <<store, arrivals, pvcs, deployments, pods, rvNext>>

\* ------------------------------------------------------- the platform
\* The deployment controller starts the pod of a deployment that asks for
\* a replica and stops the pod of one that is gone or scaled to zero.
PodStart ==
    /\ Ready
    /\ \E d \in deployments :
        /\ d.replicas >= 1
        /\ d.app \notin pods
        /\ pods' = pods \cup {d.app}
    /\ UNCHANGED <<store, arrivals, faults, pvcs, deployments, services, rvNext, req>>

PodStop ==
    /\ Ready
    /\ \E p \in pods :
        /\ ~\E d \in deployments : d.app = p /\ d.replicas >= 1
        /\ pods' = pods \ {p}
    /\ UNCHANGED <<store, arrivals, faults, pvcs, deployments, services, rvNext, req>>

\* ------------------------------------------------------- specification
Next ==
    \/ PodStart
    \/ PodStop
    \/ \E r \in Req :
        \/ Arrive(r)
        \/ Release(r)
        \/ JWTMiddleware(r)
        \/ APIKeyMiddleware(r)
        \/ RequirePermission(r)
        \/ RequireServerPermission(r)
        \/ CreateBind(r)
        \/ EnsurePVCGet(r)
        \/ EnsurePVCCreate(r)
        \/ CreateDeploymentStep(r)
        \/ StopCheck(r)
        \/ StopGetPod(r)
        \/ StopSave(r)
        \/ StopScaleGet(r)
        \/ StopScaleUpdate(r)
        \/ RestartCheck(r)
        \/ RestartGetPod(r)
        \/ RestartSave(r)
        \/ RestartGet(r)
        \/ RestartUpdate(r)
        \/ StartCheck(r)
        \/ StartScaleGet(r)
        \/ StartScaleUpdate(r)
        \/ DeleteDeploymentStep(r)
        \/ DeletePVCStep(r)
        \/ DeleteServiceStep(r)
        \/ ExecCheck(r)
        \/ ExecGetPod(r)
        \/ ExecBind(r)
        \/ ExecRun(r)
        \/ ExposeCheck(r)
        \/ ExposeBind(r)
        \/ ExposeDelete(r)
        \/ ExposeCreate(r)

Spec == Init /\ [][Next]_vars

\* ================================================== the auth package alone
\* The middleware functions and the /apikeys and /users groups, applied to
\* requests, users, server records and key rows drawn from small sets.  The
\* handlers of the /servers and /users routes are not run here: reaching
\* one ends the request.  APIKeyMiddleware is entered both behind
\* JWTMiddleware, as the /servers group mounts it, and directly with no
\* principal in the context, as the function is written to be used.

\* Request bodies of POST /apikeys.  expires_at is a time.Time: the zero
\* time when the field is left out.
KeyBodies ==
    [json : {TRUE}, expiresAt : {ZeroTime} \cup Times]
        \cup {[json |-> FALSE, expiresAt |-> ZeroTime]}

\* Values GenerateAPIKey may return.
GeneratedKeys == {"mcapi.n1"}

\* CreateAPIKeyHandler: the row stores a pointer to the request's
\* ExpiresAt, never NULL, and leaves last_used NULL; the key column is
\* UNIQUE.
CreateAPIKeyHandler(r) ==
    /\ At(r, "k_new")
    /\ \E b \in KeyBodies, k \in GeneratedKeys, fault \in FaultChoices :
        LET rec == req[r]
            ok == ~fault /\ ~\E a \in apiKeys : a.key = k
            row == [key |-> k, userID |-> rec.user, expiresAt |-> b.expiresAt,
                    lastUsed |-> NullTime]
        IN IF rec.user = 0 \/ ~b.json
           THEN /\ req' = [req EXCEPT ![r] =
                       Respond(rec, IF rec.user = 0 THEN 401 ELSE 400, {"error"})]
                /\ UNCHANGED <<apiKeys, faults>>
           ELSE /\ Injected(fault)
                /\ apiKeys' = IF ok THEN apiKeys \cup {row} ELSE apiKeys
                /\ req' = [req EXCEPT ![r] =
                       IF ok THEN Respond(LoggedDB(rec, Call("CreateAPIKey", TRUE, FALSE)), 201,
                                          {"id", "key", "description", "expires_at", "created_at"})
                       ELSE Respond(LoggedDB(rec, Call("CreateAPIKey", FALSE, fault)), 500, {"error"})]
    /\ UNCHANGED <<users, servers, dbType, arrivals, platform>>

\* c.Next() out of the last middleware: the route's handler runs.
RunHandler(r) ==
    /\ Ready
    /\ req[r].kind \in Kinds \cup {"users"}
    /\ req[r].pc = HandlerEntry(req[r].kind)
    /\ req' = [req EXCEPT ![r] = Respond(req[r], 200, {"handled"})]
    /\ UNCHANGED <<store, arrivals, platform, faults>>

AuthKinds == Kinds \cup {"users", "newkey"}

AuthArrive(r) ==
    /\ At(r, "idle")
    /\ \A q \in Req : ~InFlight(q)
    /\ arrivals < MaxArrivals
    /\ \E k \in AuthKinds, n \in ServerNames :
        \E entry \in IF k \in Kinds THEN {"jwt", "apikey"} ELSE {"jwt"} :
            req' = [req EXCEPT ![r] =
                       [IdleReq EXCEPT !.pc = entry, !.kind = k, !.name = n]]
    /\ arrivals' = arrivals + 1
    /\ UNCHANGED <<store, platform, faults>>

\* Permission words of the user whose rights vary.
PermChoices ==
    {0, PermAdmin, PermReadOnly, PermAdmin + PermViewServer, PermAll - PermAdmin}

\* Key rows that were used before: one without an expiry, one with an
\* expiry, one of an inactive user.
AuthKeys ==
    { [key |-> "mcapi.k2", userID |-> 2, expiresAt |-> ZeroTime, lastUsed |-> 1],
      [key |-> "mcapi.k3", userID |-> 3, expiresAt |-> MaxTime, lastUsed |-> 1],
      [key |-> "mcapi.k4", userID |-> 4, expiresAt |-> ZeroTime, lastUsed |-> 1] }

AuthInit ==
    /\ \E p \in PermChoices : users = [InitUsers EXCEPT ![3].permissions = p]
    /\ apiKeys = AuthKeys
    /\ \E owners \in {{}, {2}, {3}} :
          servers = {[serverName |-> n, ownerID |-> o] : n \in ServerNames, o \in owners}
    /\ dbType \in {"sqlite", "postgres"}
    /\ pvcs = {}
    /\ deployments = {}
    /\ pods = {}
    /\ services = {}
    /\ rvNext = 1
    /\ arrivals = 0
    /\ faults = 0
    /\ req = [r \in Req |-> IdleReq]

AuthNext ==
    \E r \in Req :
        \/ AuthArrive(r)
        \/ Release(r)
        \/ JWTMiddleware(r)
        \/ APIKeyMiddleware(r)
        \/ RequirePermission(r)
        \/ RequireServerPermission(r)
        \/ CreateAPIKeyHandler(r)
        \/ RunHandler(r)

AuthSpec == AuthInit /\ [][AuthNext]_vars

\* ============================================= one client, calls in order
\* A single client works through create, stop, start, delete for one
\* server that does not exist at the start, sending each call after the
\* previous one was answered 200.
ScenarioKinds == <<"create", "stop", "start", "delete">>

ScenarioInit ==
    /\ users = InitUsers
    /\ apiKeys = {}
    /\ servers = {}
    /\ dbType = "sqlite"
    /\ pvcs = {}
    /\ deployments = {}
    /\ pods = {}
    /\ services = {}
    /\ rvNext = 1
    /\ arrivals = 0
    /\ faults = 0
    /\ req = [r \in Req |-> IdleReq]

ScenarioArrive(r) ==
    /\ r = 1
    /\ arrivals < Len(ScenarioKinds)
    /\ \/ arrivals = 0 /\ req[r].pc = "idle"
       \/ arrivals > 0 /\ req[r].pc = "done" /\ req[r].status = 200
    /\ \E n \in IF arrivals = 0 THEN ServerNames ELSE {req[r].name} :
        req' = [req EXCEPT ![r] =
                   [IdleReq EXCEPT !.pc = "jwt", !.kind = ScenarioKinds[arrivals + 1],
                        !.name = n,
                        !.pvcAtStart = (PVCNameOf(DeploymentName(n)) \in pvcs),
                        !.depAtStart = Exists(deployments, DeploymentName(n))]]
    /\ arrivals' = arrivals + 1
    /\ UNCHANGED <<store, platform, faults>>

ScenarioNext ==
    \/ PodStart
    \/ PodStop
    \/ \E r \in Req :
        \/ ScenarioArrive(r)
        \/ Release(r)
        \/ JWTMiddleware(r)
        \/ APIKeyMiddleware(r)
        \/ RequirePermission(r)
        \/ RequireServerPermission(r)
        \/ CreateBind(r)
        \/ EnsurePVCGet(r)
        \/ EnsurePVCCreate(r)
        \/ CreateDeploymentStep(r)
        \/ StopCheck(r)
        \/ StopGetPod(r)
        \/ StopSave(r)
        \/ StopScaleGet(r)
        \/ StopScaleUpdate(r)
        \/ StartCheck(r)
        \/ StartScaleGet(r)
        \/ StartScaleUpdate(r)
        \/ DeleteDeploymentStep(r)
        \/ DeletePVCStep(r)
        \/ DeleteServiceStep(r)

ScenarioSpec == ScenarioInit /\ [][ScenarioNext]_vars

\* ===================================================== the command stream
\* ExecuteCommandInPod (package kubernetes) and the older executeCommandInPod
\* (package api) taken alone: one call opens a stream into the container,
\* the remote side writes to the two buffers while time passes, and the
\* call returns when the stream ends.  Calls share no state, so one call is
\* followed at a time.  The caller is a request handler; its client may go
\* away at any moment, which cancels the request's context.
MaxChunks == 2   \* pieces of output the remote side writes during one call
MaxElapsed == 31 \* seconds a stream without a deadline is followed for

\* context.WithTimeout(context.Background(), 30*time.Second)
ExecTimeout == 30

Executors == {"ExecuteCommandInPod", "executeCommandInPod"}

\* Only ExecuteCommandInPod gives its stream a context with a deadline; the
\* older function streams under context.Background().
HasDeadline(fn) == fn = "ExecuteCommandInPod"

ExecCommands == {SaveCommand, "mc-send-to-console say hi"}
Chunks == {"a", "b"}

\* No call in progress: empty buffers, nothing returned.
StreamIdle ==
    [pc |-> "idle", fn |-> "none", command |-> "", stdoutBuf |-> <<>>,
     stderrBuf |-> <<>>, elapsed |-> 0, cancelled |-> FALSE, ret |-> NoObj]

MutReturnOutputDropsOnError(rec, err) ==
    [rec EXCEPT !.pc = "returned",
                !.ret = [stdout |-> IF err = "nil" THEN rec.stdoutBuf ELSE <<>>,
                         stderr |-> IF err = "nil" THEN rec.stderrBuf ELSE <<>>,
                         err |-> err]]

\* return stdoutBuf.String(), stderrBuf.String(), err
ReturnOutput(rec, err) ==
    [rec EXCEPT !.pc = "returned",
                !.ret = [stdout |-> rec.stdoutBuf, stderr |-> rec.stderrBuf, err |-> err]]

ExecInit ==
    /\ users = InitUsers
    /\ apiKeys = {}
    /\ servers = {}
    /\ dbType = "sqlite"
    /\ pvcs = {PVCNameOf(DeploymentName(n)) : n \in ServerNames}
    /\ deployments = {NewDeployment(DeploymentName(n), PVCNameOf(DeploymentName(n)), 1) : n \in ServerNames}
    /\ pods = {DeploymentName(n) : n \in ServerNames}
    /\ services = {}
    /\ rvNext = 2
    /\ arrivals = 0
    /\ faults = 0
    /\ req = [r \in Req |-> StreamIdle]

\* The call begins: the request is prepared and the executor created.  A
\* failure to create the executor returns two empty strings and the error.
ExecStart(r) ==
    /\ \A q \in Req : req[q].pc = "idle"
    /\ \E fn \in Executors, command \in ExecCommands, created \in BOOLEAN :
        LET rec == [StreamIdle EXCEPT !.fn = fn, !.command = command] IN
        req' = [req EXCEPT ![r] =
            IF created THEN [rec EXCEPT !.pc = "streaming"]
            ELSE [rec EXCEPT !.pc = "returned",
                             !.ret = [stdout |-> <<>>, stderr |-> <<>>, err |-> "executor"]]]
    /\ UNCHANGED <<store, platform, arrivals, faults>>

\* The remote side writes to stdout or stderr; the stream copies it into
\* the buffer.
StreamOutput(r) ==
    /\ req[r].pc = "streaming"
    /\ Len(req[r].stdoutBuf) + Len(req[r].stderrBuf) < MaxChunks
    /\ \E c \in Chunks :
        \/ req' = [req EXCEPT ![r].stdoutBuf = Append(@, c)]
        \/ req' = [req EXCEPT ![r].stderrBuf = Append(@, c)]
    /\ UNCHANGED <<store, platform, arrivals, faults>>

\* A second passes with the stream open.  A stream with a deadline is not
\* followed past it: its context is done and the stream returns.
StreamTick(r) ==
    /\ req[r].pc = "streaming"
    /\ req[r].elapsed < (IF HasDeadline(req[r].fn) THEN ExecTimeout ELSE MaxElapsed)
    /\ req' = [req EXCEPT ![r].elapsed = @ + 1]
    /\ UNCHANGED <<store, platform, arrivals, faults>>

\* The remote command ends: exit status 0 is no error, any other status is
\* an error of the stream.
StreamExit(r) ==
    /\ req[r].pc = "streaming"
    /\ \E code \in {0, 1} :
        req' = [req EXCEPT ![r] = ReturnOutput(req[r], IF code = 0 THEN "nil" ELSE "exit")]
    /\ UNCHANGED <<store, platform, arrivals, faults>>

\* The connection breaks.
StreamError(r) ==
    /\ req[r].pc = "streaming"
    /\ req' = [req EXCEPT ![r] = ReturnOutput(req[r], "stream")]
    /\ UNCHANGED <<store, platform, arrivals, faults>>

\* The deadline of the stream's context has passed.
StreamTimeout(r) ==
    /\ req[r].pc = "streaming"
    /\ HasDeadline(req[r].fn)
    /\ req[r].elapsed >= ExecTimeout
    /\ req' = [req EXCEPT ![r] = ReturnOutput(req[r], "deadline")]
    /\ UNCHANGED <<store, platform, arrivals, faults>>

\* The client of the calling handler goes away: the request's context is
\* cancelled.  Neither function takes the caller's context or derives the
\* stream's context from it, so the stream is not told.
CallerCancel(r) ==
    /\ req[r].pc = "streaming"
    /\ ~req[r].cancelled
    /\ req' = [req EXCEPT ![r].cancelled = TRUE]
    /\ UNCHANGED <<store, platform, arrivals, faults>>

\* The caller has taken the three results.
ExecFinish(r) ==
    /\ req[r].pc = "returned"
    /\ req' = [req EXCEPT ![r] = StreamIdle]
    /\ UNCHANGED <<store, platform, arrivals, faults>>

ExecNext ==
    \E r \in Req :
        \/ ExecStart(r)
        \/ StreamOutput(r)
        \/ StreamTick(r)
        \/ StreamExit(r)
        \/ StreamError(r)
        \/ StreamTimeout(r)
        \/ CallerCancel(r)
        \/ ExecFinish(r)

ExecSpec == ExecInit /\ [][ExecNext]_vars

\* ============================================================ the accounts
\* The /auth routes that need no token: LoginHandler, RegisterHandler and
\* OAuthCallbackHandler with SyncOAuthUser, acting on the users table.  Every
\* statement sent to the database is one step, so that concurrent requests
\* interleave between the statements of CreateUser.  A row of the users
\* table is [username, email, passwordHash, permissions, active, lastLogin],
\* and the User struct a handler holds is the row together with its id.

\* MINECHARTS_JWT_EXPIRY_HOURS; the clock is read in hours.
JWTExpiryHours == 24

\* bcrypt: the hash verifies against the password it was made from and no
\* other.
HashPassword(password) == [bcrypt |-> password]
VerifyPassword(hashedPassword, password) == hashedPassword.bcrypt = password

MutGenerateJWTSubjectFromPermissions(userID, username, email, permissions, now) ==
    [sub |-> permissions, exp |-> now + JWTExpiryHours, sig |-> "good",
     alg |-> "HS256", form |-> "jwt"]

\* GenerateJWT: an HS256 token for the user id, signed with the configured
\* secret, expiring JWTExpiryHours after the time of issue.
GenerateJWT(userID, username, email, permissions, now) ==
    [sub |-> userID, exp |-> now + JWTExpiryHours, sig |-> "good",
     alg |-> "HS256", form |-> "jwt"]

AcctNames == (1 :> "admin") @@ (2 :> "bob") @@ (3 :> "carol") @@ (4 :> "dave")

\* The users of InitUsers as full rows; nobody has signed in yet.
AcctUsers ==
    [id \in DOMAIN InitUsers |->
        [username |-> AcctNames[id], email |-> AcctNames[id] \o "@x",
         passwordHash |-> HashPassword("pw-" \o AcctNames[id]),
         permissions |-> InitUsers[id].permissions, active |-> InitUsers[id].active,
         lastLogin |-> NullTime]]

\* ---- the statements of the users table
\* SELECT ... FROM users WHERE username = ?
UserByUsername(rows, username) == {id \in DOMAIN rows : rows[id].username = username}

\* The row scanned into a User struct.
ScanUser(rows, id) ==
    [id |-> id, username |-> rows[id].username, email |-> rows[id].email,
     passwordHash |-> rows[id].passwordHash, permissions |-> rows[id].permissions,
     active |-> rows[id].active, lastLogin |-> rows[id].lastLogin]

\* SELECT EXISTS(SELECT 1 FROM users WHERE username = ? OR email = ?)
UserExists(rows, username, email) ==
    \E id \in DOMAIN rows : rows[id].username = username \/ rows[id].email = email

\* id INTEGER PRIMARY KEY AUTOINCREMENT
NextUserID(rows) == (CHOOSE id \in DOMAIN rows : \A other \in DOMAIN rows : other <= id) + 1

\* INSERT INTO users (username, email, password_hash, permissions, active,
\* created_at, updated_at): the statement names no last_login, which is
\* left NULL.
InsertUser(rows, user) ==
    rows @@ (NextUserID(rows) :>
        [username |-> user.username, email |-> user.email,
         passwordHash |-> user.passwordHash, permissions |-> user.permissions,
         active |-> user.active, lastLogin |-> NullTime])

\* UPDATE users SET username, email, password_hash, permissions, active,
\* updated_at WHERE id = ?: the statement does not set last_login.
UpdateUserRow(rows, user) ==
    IF user.id \notin DOMAIN rows THEN rows
    ELSE [rows EXCEPT ![user.id] =
             [@ EXCEPT !.username = user.username, !.email = user.email,
                       !.passwordHash = user.passwordHash,
                       !.permissions = user.permissions, !.active = user.active]]

\* ---- requests
AcctKinds == {"login", "register", "oauth"}

AcctEntry(kind) ==
    CASE kind = "login" -> "l_bind"
      [] kind = "register" -> "g_bind"
      [] kind = "oauth" -> "o_callback"

AcctIdle ==
    [pc |-> "idle", kind |-> "none", body |-> NoObj, copy |-> NoObj, status |-> 0,
     resp |-> {}, error |-> "", db |-> <<>>, token |-> NoObj, userID |-> 0,
     now |-> 0, repeat |-> FALSE]

AcctInit ==
    /\ users = AcctUsers
    /\ apiKeys = {}
    /\ servers = {}
    /\ dbType = "sqlite"
    /\ pvcs = {}
    /\ deployments = {}
    /\ pods = {}
    /\ services = {}
    /\ rvNext = 1
    /\ arrivals = 0
    /\ faults = 0
    /\ req = [r \in Req |-> AcctIdle]

AcctArrive(r) ==
    /\ At(r, "idle")
    /\ arrivals < MaxArrivals
    /\ \E k \in AcctKinds :
        req' = [req EXCEPT ![r] = [AcctIdle EXCEPT !.pc = AcctEntry(k), !.kind = k]]
    /\ arrivals' = arrivals + 1
    /\ UNCHANGED <<store, platform, faults>>

AcctRelease(r) ==
    /\ req[r].pc = "done"
    /\ req' = [req EXCEPT ![r] = AcctIdle]
    /\ UNCHANGED <<store, platform, arrivals, faults>>

\* The body with the token that LoginHandler and RegisterHandler answer.
TokenResponse == {"token", "user_id", "username", "email", "permissions"}

\* ---- LoginHandler
LoginNames == {"admin", "carol", "dave", "erin"}
LoginPasswords == {"pw-admin", "pw-carol", "pw-dave", "pw-erin"}

LoginBind(r) ==
    /\ At(r, "l_bind")
    /\ \/ req' = [req EXCEPT ![r] = Respond(req[r], 400, {"error"})]
       \/ \E u \in LoginNames, p \in LoginPasswords :
            req' = [req EXCEPT ![r] =
                [Goto(req[r], "l_get") EXCEPT !.body = [username |-> u, password |-> p]]]
    /\ UNCHANGED <<store, platform, arrivals, faults>>

\* GetUserByUsername, the password and active tests, GenerateJWT.
LoginGetUser(r) ==
    /\ At(r, "l_get")
    /\ \E fault \in FaultChoices, now \in Times :
        LET rec == req[r]
            found == UserByUsername(users, rec.body.username)
            ok == ~fault /\ found # {}
            logged == LoggedDB(rec, Call("GetUserByUsername", ok, fault))
            user == ScanUser(users, CHOOSE id \in found : TRUE)
        IN /\ Injected(fault)
           /\ req' = [req EXCEPT ![r] =
                  IF fault THEN RespondError(logged, 500, "Failed to get user")
                  ELSE IF found = {}
                      THEN RespondError(logged, 401, "Invalid username or password")
                  ELSE IF ~VerifyPassword(user.passwordHash, rec.body.password)
                      THEN RespondError(logged, 401, "Invalid username or password")
                  ELSE IF ~user.active
                      THEN RespondError(logged, 403, "User account is inactive")
                  ELSE [Goto(logged, "l_upd") EXCEPT
                           !.token = GenerateJWT(user.id, user.username, user.email,
                                                 user.permissions, now),
                           !.copy = [user EXCEPT !.lastLogin = now],
                           !.now = now]]
    /\ UNCHANGED <<store, platform, arrivals>>

\* UpdateUser, whose error is ignored, and the answer.
LoginUpdate(r) ==
    /\ At(r, "l_upd")
    /\ \E fault \in FaultChoices :
        LET rec == req[r]
            logged == LoggedDB(rec, Call("UpdateUser", ~fault, fault))
        IN /\ Injected(fault)
           /\ users' = IF fault THEN users ELSE UpdateUserRow(users, rec.copy)
           /\ req' = [req EXCEPT ![r] =
                  [Respond(logged, 200, TokenResponse) EXCEPT !.userID = rec.copy.id]]
    /\ UNCHANGED <<apiKeys, servers, dbType, platform, arrivals>>

\* ---- CreateUser, called by RegisterHandler and by SyncOAuthUser
\* RegisterHandler answers 409 for ErrUserExists and 500 for any other
\* error; OAuthCallbackHandler answers 500 for every error of the sync.
CreateUserFailed(rec, err) ==
    IF rec.kind = "register"
    THEN IF err = "ErrUserExists"
         THEN RespondError(rec, 409, "Username or email already exists")
         ELSE RespondError(rec, 500, "Failed to create user")
    ELSE RespondError(rec, 500, "Failed to sync user")

\* The caller's answer once the user is stored: 201 with the token, or the
\* redirect to the frontend that carries the token.
CreateUserDone(rec, id, now) ==
    LET withToken == [rec EXCEPT !.userID = id, !.now = now,
                          !.token = GenerateJWT(id, rec.copy.username, rec.copy.email,
                                                rec.copy.permissions, now)]
    IN IF rec.kind = "register" THEN Respond(withToken, 201, TokenResponse)
       ELSE Respond(withToken, 307, {"Location"})

\* First statement: the existence test.
CreateUserCheck(r) ==
    /\ At(r, "cu_check")
    /\ \E fault \in FaultChoices :
        LET rec == req[r]
            exists == UserExists(users, rec.copy.username, rec.copy.email)
            logged == LoggedDB(rec, [Call("UserExists", ~fault, fault) EXCEPT !.found = exists])
        IN /\ Injected(fault)
           /\ req' = [req EXCEPT ![r] =
                  IF fault THEN CreateUserFailed(logged, "transport")
                  ELSE IF exists THEN CreateUserFailed(logged, "ErrUserExists")
                  ELSE Goto(logged, "cu_insert")]
    /\ UNCHANGED <<store, platform, arrivals>>

\* Second statement: the insert.  The table refuses a second row with the
\* same username or the same email (UNIQUE); the driver's error for that is
\* returned as it is.
CreateUserInsert(r) ==
    /\ At(r, "cu_insert")
    /\ \E fault \in FaultChoices, now \in Times :
        LET rec == req[r]
            taken == UserExists(users, rec.copy.username, rec.copy.email)
            ok == ~fault /\ ~taken
            logged == LoggedDB(rec, [Call("InsertUser", ok, fault) EXCEPT !.found = taken])
        IN /\ Injected(fault)
           /\ users' = IF ok THEN InsertUser(users, rec.copy) ELSE users
           /\ req' = [req EXCEPT ![r] =
                  IF fault THEN CreateUserFailed(logged, "transport")
                  ELSE IF taken THEN CreateUserFailed(logged, "unique constraint")
                  ELSE CreateUserDone(logged, NextUserID(users), now)]
    /\ UNCHANGED <<apiKeys, servers, dbType, platform, arrivals>>

\* ---- RegisterHandler
RegisterNames == {"carol", "erin"}
RegisterEmails == {"carol@x", "erin@x"}

\* The User struct RegisterHandler builds.
NewRegisteredUser(body, passwordHash) ==
    [id |-> 0, username |-> body.username, email |-> body.email,
     passwordHash |-> passwordHash, permissions |-> PermReadOnly, active |-> TRUE,
     lastLogin |-> NullTime]

RegisterBind(r) ==
    /\ At(r, "g_bind")
    /\ \/ req' = [req EXCEPT ![r] = Respond(req[r], 400, {"error"})]
       \/ req' = [req EXCEPT ![r] = RespondError(req[r], 500, "Failed to hash password")]
       \/ \E u \in RegisterNames, e \in RegisterEmails :
            LET body == [username |-> u, email |-> e, password |-> "pw-" \o u] IN
            req' = [req EXCEPT ![r] =
                [Goto(req[r], "cu_check") EXCEPT
                    !.body = body,
                    !.copy = NewRegisteredUser(body, HashPassword(body.password))]]
    /\ UNCHANGED <<store, platform, arrivals, faults>>

\* ---- OAuthCallbackHandler and SyncOAuthUser
OAuthNames == {"carol", "erin"}
OAuthEmails == {"carol@x", "erin@x"}

MutNewOAuthUserAllPermissions(userInfo, passwordHash, now) ==
    [id |-> 0, username |-> userInfo.username, email |-> userInfo.email,
     passwordHash |-> passwordHash, permissions |-> PermAll, active |-> TRUE,
     lastLogin |-> now]

\* The User struct SyncOAuthUser builds for an unknown username.
NewOAuthUser(userInfo, passwordHash, now) ==
    [id |-> 0, username |-> userInfo.username, email |-> userInfo.email,
     passwordHash |-> passwordHash, permissions |-> PermReadOnly, active |-> TRUE,
     lastLogin |-> now]

\* The checks of the callback, the exchange of the code and the user info
\* of the identity provider.
OAuthCallback(r) ==
    /\ At(r, "o_callback")
    /\ \/ req' = [req EXCEPT ![r] = Respond(req[r], 400, {"error"})]
       \/ req' = [req EXCEPT ![r] = Respond(req[r], 500, {"error"})]
       \/ \E u \in OAuthNames, e \in OAuthEmails :
            req' = [req EXCEPT ![r] =
                [Goto(req[r], "o_get") EXCEPT !.body = [username |-> u, email |-> e]]]
    /\ UNCHANGED <<store, platform, arrivals, faults>>

\* SyncOAuthUser, the lookup by username: an unknown name leads to
\* CreateUser with a random password, a known one to UpdateUser.
OAuthGetUser(r) ==
    /\ At(r, "o_get")
    /\ \E fault \in FaultChoices, now \in Times, hashed \in BOOLEAN :
        LET rec == req[r]
            found == UserByUsername(users, rec.body.username)
            ok == ~fault /\ found # {}
            logged == LoggedDB(rec, Call("GetUserByUsername", ok, fault))
        IN /\ Injected(fault)
           /\ (found # {} \/ fault) => hashed
           /\ req' = [req EXCEPT ![r] =
                  IF fault THEN RespondError(logged, 500, "Failed to sync user")
                  ELSE IF found = {}
                      THEN IF hashed
                           THEN [Goto(logged, "cu_check") EXCEPT
                                    !.copy = NewOAuthUser(rec.body, HashPassword("random"), now)]
                           ELSE RespondError(logged, 500, "Failed to sync user")
                  ELSE [Goto(logged, "o_upd") EXCEPT
                           !.copy = [ScanUser(users, CHOOSE id \in found : TRUE)
                                        EXCEPT !.lastLogin = now],
                           !.now = now, !.repeat = TRUE]]
    /\ UNCHANGED <<store, platform, arrivals>>

\* SyncOAuthUser, the update of the known user (a failure is logged and
\* nothing more), then the token and the redirect.
OAuthUpdate(r) ==
    /\ At(r, "o_upd")
    /\ \E fault \in FaultChoices :
        LET rec == req[r]
            logged == LoggedDB(rec, Call("UpdateUser", ~fault, fault))
            withToken == [logged EXCEPT
                             !.userID = rec.copy.id,
                             !.token = GenerateJWT(rec.copy.id, rec.copy.username,
                                                   rec.copy.email, rec.copy.permissions,
                                                   rec.now)]
        IN /\ Injected(fault)
           /\ users' = IF fault THEN users ELSE UpdateUserRow(users, rec.copy)
           /\ req' = [req EXCEPT ![r] = Respond(withToken, 307, {"Location"})]
    /\ UNCHANGED <<apiKeys, servers, dbType, platform, arrivals>>

AcctNext ==
    \E r \in Req :
        \/ AcctArrive(r)
        \/ AcctRelease(r)
        \/ LoginBind(r)
        \/ LoginGetUser(r)
        \/ LoginUpdate(r)
        \/ RegisterBind(r)
        \/ CreateUserCheck(r)
        \/ CreateUserInsert(r)
        \/ OAuthCallback(r)
        \/ OAuthGetUser(r)
        \/ OAuthUpdate(r)

AcctSpec == AcctInit /\ [][AcctNext]_vars

\* ================================================================ claims
Ops(rec) == [i \in 1..Len(rec.calls) |-> rec.calls[i].op]
HasCall(rec, op) == \E i \in 1..Len(rec.calls) : rec.calls[i].op = op
SavedAt(rec, j) ==
    /\ rec.calls[j].op = "Exec"
    /\ rec.calls[j].arg = SaveCommand
    /\ rec.calls[j].ok
Changing == {"CreateDeployment", "UpdateDeployment", "DeleteDeployment"}
NoTransportFailure(rec) == \A i \in 1..Len(rec.calls) : ~rec.calls[i].fault
WorkloadsOf(n) == {d \in deployments : d.app = DeploymentName(n)}
ServicesOf(svcs, n) == {s \in svcs : s.app = DeploymentName(n)}

\* The principal in the request context is an active user who holds the
\* route's permission (or owns the addressed server's record).
Authorised(rec) ==
    /\ rec.user \in DOMAIN users
    /\ users[rec.user].active
    /\ \/ BitAnd(users[rec.user].permissions, PermAdmin) # 0
       \/ BitAnd(users[rec.user].permissions, RoutePerm(rec.kind)) # 0
       \/ /\ rec.kind # "create"
          /\ \E s \in servers : s.serverName = rec.name /\ s.ownerID = rec.user

\* C1: when the save-all command of a Stop call fails, that step ends the
\* call with an error, leaves every deployment as it was, and the call has
\* made no scale-down or removal.
C1_StopFailsClosed ==
    [][\A r \in Req :
        LET rec == req'[r] IN
        ( /\ rec.kind = "stop"
          /\ Len(rec.calls) = Len(req[r].calls) + 1
          /\ rec.calls[Len(rec.calls)].op = "Exec"
          /\ ~rec.calls[Len(rec.calls)].ok )
        => ( /\ rec.pc = "done"
             /\ rec.status = 500
             /\ deployments' = deployments
             /\ \A i \in 1..Len(rec.calls) : rec.calls[i].op \notin Changing )]_vars

C1_Witness ==
    \E r \in Req :
        /\ req[r].kind = "stop" /\ req[r].pc = "done" /\ req[r].status = 500
        /\ Len(req[r].calls) = 3
        /\ req[r].calls[3].op = "Exec" /\ ~req[r].calls[3].ok
        /\ \E d \in WorkloadsOf(req[r].name) : d.replicas = DefaultReplicas

\* C2 (as stated): every Stop or Restart call that changed the workload
\* issued a successful save-all earlier in the same call.
C2_SaveBeforeEveryChange ==
    \A r \in Req :
        req[r].kind \in {"stop", "restart"} =>
            \A i \in 1..Len(req[r].calls) :
                (req[r].calls[i].op = "UpdateDeployment" /\ req[r].calls[i].ok)
                => \E j \in 1..(i - 1) : SavedAt(req[r], j)

\* C2 (amended): every Restart call, and every Stop call whose pod lookup
\* found a pod, that changed the workload issued a successful save-all
\* earlier in the same call.
C2_SaveBeforeChangeWhenPodFound ==
    \A r \in Req :
        \A i \in 1..Len(req[r].calls) :
            ( /\ req[r].calls[i].op = "UpdateDeployment" /\ req[r].calls[i].ok
              /\ \/ req[r].kind = "restart"
                 \/ /\ req[r].kind = "stop"
                    /\ \E j \in 1..(i - 1) :
                         req[r].calls[j].op = "ListPods" /\ req[r].calls[j].found )
            => \E j \in 1..(i - 1) : SavedAt(req[r], j)

C2_Witness ==
    \E r \in Req :
        /\ req[r].kind = "stop" /\ req[r].pc = "done" /\ req[r].status = 200
        /\ \E j \in 1..Len(req[r].calls) : SavedAt(req[r], j)
        /\ \E d \in WorkloadsOf(req[r].name) : d.replicas = 0

\* C3: a Create call for a server that an earlier Create has set up, run on
\* its own and without transport failures, returns no error and leaves
\* exactly one volume claim and one workload.
C3_SecondCreateSucceeds ==
    \A r \in Req :
        ( /\ req[r].kind = "create" /\ req[r].pc = "done"
          /\ req[r].solo /\ req[r].pvcAtStart /\ req[r].depAtStart
          /\ req[r].calls # <<>> /\ NoTransportFailure(req[r]) )
        => ( /\ req[r].status = 200
             /\ PVCNameOf(DeploymentName(req[r].name)) \in pvcs
             /\ Cardinality(WorkloadsOf(req[r].name)) = 1 )

\* C4: of two concurrent Create calls for an absent server, without
\* transport failures, neither gets an error and one volume claim and one
\* workload result.
C4_ConcurrentCreatesBothSucceed ==
    \A r \in Req :
        ( /\ req[r].kind = "create" /\ req[r].pc = "done"
          /\ req[r].peer \in {200, 500}
          /\ ~req[r].pvcAtStart /\ ~req[r].depAtStart
          /\ req[r].calls # <<>> /\ faults = 0 )
        => ( /\ req[r].status = 200 /\ req[r].peer = 200
             /\ PVCNameOf(DeploymentName(req[r].name)) \in pvcs
             /\ Cardinality(WorkloadsOf(req[r].name)) = 1 )

\* C5: a Create call that created the volume claim itself and then failed
\* to create the workload deletes that claim before it returns.
C5_FreshClaimRolledBack ==
    \A r \in Req :
        ( /\ req[r].kind = "create" /\ req[r].pc = "done"
          /\ \E i \in 1..Len(req[r].calls) :
               req[r].calls[i].op = "CreatePVC" /\ req[r].calls[i].ok
          /\ \E i \in 1..Len(req[r].calls) :
               req[r].calls[i].op = "CreateDeployment" /\ ~req[r].calls[i].ok )
        => ( /\ HasCall(req[r], "DeletePVC")
             /\ req[r].solo => PVCNameOf(DeploymentName(req[r].name)) \notin pvcs )

\* C6: no step of a Create call removes a volume claim when the server's
\* claim existed before the call started.
C6_CreateKeepsExistingClaim ==
    [][\A r \in Req :
        ( /\ req[r].kind = "create" /\ req[r].pvcAtStart
          /\ InFlight(r)
          /\ req'[r].calls # req[r].calls )
        => pvcs \subseteq pvcs']_vars

C6_Witness ==
    \E r \in Req :
        /\ req[r].kind = "create" /\ req[r].pc = "done" /\ req[r].status = 500
        /\ req[r].pvcAtStart
        /\ \E i \in 1..Len(req[r].calls) :
             req[r].calls[i].op = "CreateDeployment" /\ ~req[r].calls[i].ok
        /\ PVCNameOf(DeploymentName(req[r].name)) \in pvcs

\* C7: every Delete call that passed the middleware answers 200 after
\* attempting the removal of the workload, the volume claim and the
\* service, whatever the three removals returned.
C7_DeleteAlwaysSucceeds ==
    \A r \in Req :
        (req[r].kind = "delete" /\ req[r].pc = "done" /\ Authorised(req[r]))
        => ( /\ req[r].status = 200
             /\ Ops(req[r]) = <<"DeleteDeployment", "DeletePVC", "DeleteService">> )

C7_Witness ==
    \E r \in Req :
        /\ req[r].kind = "delete" /\ req[r].pc = "done" /\ req[r].status = 200
        /\ Len(req[r].calls) = 3
        /\ \A i \in 1..3 : ~req[r].calls[i].ok /\ ~req[r].calls[i].fault

\* C8: a Delete call in which a removal failed reports that failure as a
\* warning in its response.
C8_DeleteReportsWarnings ==
    \A r \in Req :
        ( /\ req[r].kind = "delete" /\ req[r].pc = "done"
          /\ \E i \in 1..Len(req[r].calls) : ~req[r].calls[i].ok )
        => "warnings" \in req[r].resp

\* C9: a server never has more than one service, and the step in which an
\* Expose call succeeds leaves exactly one service for the server, of the
\* exposure type that call asked for.
AtMostOneService == \A n \in ServerNames : Cardinality(ServicesOf(services, n)) <= 1

C9_OneServicePerServer ==
    /\ []AtMostOneService
    /\ [][\A r \in Req :
            (req[r].pc = "x_create" /\ req'[r].pc = "done" /\ req'[r].status = 200)
            => ( /\ Cardinality(ServicesOf(services', req[r].name)) = 1
                 /\ \A s \in ServicesOf(services', req[r].name) :
                      ModeOf(s) = req[r].body.exposureType )]_vars

C9_Witness ==
    \E r \in Req :
        /\ req[r].kind = "expose" /\ req[r].pc = "done" /\ req[r].status = 200
        /\ \E i \in 1..Len(req[r].calls) :
             /\ req[r].calls[i].op = "DeleteService" /\ req[r].calls[i].ok
             /\ req[r].calls[i].arg # req[r].body.exposureType
        /\ \A s \in ServicesOf(services, req[r].name) :
             ModeOf(s) = req[r].body.exposureType

\* C10: a handler runs, and a platform call is made, only for a request
\* whose context holds an active principal with the route's permission;
\* any other finished request was answered 401 or 403 without a platform
\* call.
C10_HandlersBehindAuth ==
    \A r \in Req :
        /\ (req[r].pc \notin {"idle", "jwt", "apikey", "perm", "done"} \/ req[r].calls # <<>>)
             => Authorised(req[r])
        /\ (req[r].pc = "done" /\ ~Authorised(req[r]))
             => (req[r].status \in {401, 403} /\ req[r].calls = <<>>)

C10_Witness ==
    \E r \in Req :
        /\ req[r].pc = "done" /\ req[r].status = 403
        /\ req[r].user # 0 /\ req[r].calls = <<>>

\* Last Credential Store call of a request.
LastDB(rec) == rec.db[Len(rec.db)]
HoldsFlag(perms, flag) == BitAnd(perms, PermAdmin) # 0 \/ BitAnd(perms, flag) # 0
ValidBearer(h) ==
    /\ h.scheme = "Bearer" /\ h.token.form = "jwt" /\ h.token.alg \in HMACMethods
    /\ h.token.sig = "good" /\ h.token.exp > MaxTime

\* C11: on the server routes API-key validation is attempted exactly when
\* bearer-token validation resolved no principal.
C11_KeyTriedWhenNoBearerPrincipal ==
    \A r \in Req :
        (req[r].pc = "done" /\ req[r].kind \in Kinds /\ req[r].auth.scheme # Unread)
        => ((req[r].via # "jwt") <=> (req[r].apiKey # Unread))

C13_RequirePermissionDecision ==
    /\ \A p \in 0..PermAll, k \in 0..7 :
          HasPermission(p, 2^k) <=> HoldsFlag(p, 2^k)
    /\ [][\A r \in Req :
            ( /\ req[r].pc = "perm" /\ req[r].kind \in {"create", "users"}
              /\ req[r].user # 0 /\ req'[r].pc # "perm" )
            => IF HoldsFlag(users[req[r].user].permissions, RoutePerm(req[r].kind))
               THEN req'[r].pc = HandlerEntry(req[r].kind)
               ELSE req'[r].pc = "done" /\ req'[r].status = 403]_vars

C13_Witness ==
    \E r \in Req :
        /\ req[r].kind = "create" /\ req[r].pc = HandlerEntry("create")
        /\ users[req[r].user].permissions = PermAdmin

\* C14: the step of RequireServerPermission(flag) that resolved the
\* addressed server's record sends the record's owner to the handler,
\* whatever the owner's permission word.
C14_OwnerAllowed ==
    [][\A r \in Req :
        ( /\ req[r].pc = "perm" /\ ServerScoped(req[r].kind)
          /\ req[r].user # 0 /\ req'[r].pc # "perm"
          /\ LastDB(req'[r]).ok
          /\ req'[r].copy.ownerID = req[r].user )
        => req'[r].pc = HandlerEntry(req[r].kind)]_vars

C14_Witness ==
    \E r \in Req :
        /\ ServerScoped(req[r].kind) /\ req[r].pc = HandlerEntry(req[r].kind)
        /\ req[r].db # <<>> /\ LastDB(req[r]).op = "GetServerByName" /\ LastDB(req[r]).ok
        /\ req[r].copy.ownerID = req[r].user
        /\ ~HoldsFlag(users[req[r].user].permissions, RoutePerm(req[r].kind))

\* C15: a principal without the Admin bit never gets past the permission
\* check of a user-management route, whichever server records it owns.
C15_OwnershipGrantsNoAdmin ==
    \A r \in Req :
        ( /\ req[r].kind = "users" /\ req[r].user # 0
          /\ BitAnd(users[req[r].user].permissions, PermAdmin) = 0 )
        => \/ req[r].pc = "perm"
           \/ req[r].pc = "done" /\ req[r].status = 403

C15_Witness ==
    \E r \in Req :
        /\ req[r].kind = "users" /\ req[r].pc = "done" /\ req[r].status = 403
        /\ \E s \in servers : s.ownerID = req[r].user
        /\ users[req[r].user].permissions = PermAll - PermAdmin

\* C16: the step of RequireServerPermission(flag) whose lookup of the
\* server record failed decides as RequirePermission(flag): it sends the
\* principal to the handler when it has the Admin bit or flag and answers
\* 403 otherwise.
C16_FallbackIsGlobalCheck ==
    [][\A r \in Req :
        ( /\ req[r].pc = "perm" /\ ServerScoped(req[r].kind)
          /\ req[r].user # 0 /\ req'[r].pc # "perm"
          /\ ~LastDB(req'[r]).ok )
        => IF HoldsFlag(users[req[r].user].permissions, RoutePerm(req[r].kind))
           THEN req'[r].pc = HandlerEntry(req[r].kind)
           ELSE req'[r].pc = "done" /\ req'[r].status = 403]_vars

C16_Witness ==
    \E r \in Req :
        /\ ServerScoped(req[r].kind) /\ req[r].pc = "done" /\ req[r].status = 403
        /\ req[r].db # <<>> /\ LastDB(req[r]).op = "GetServerByName" /\ LastDB(req[r]).fault
        /\ \E s \in servers : s.serverName = req[r].name /\ s.ownerID = req[r].user

NothingLeft(n) ==
    /\ WorkloadsOf(n) = {}
    /\ PVCNameOf(DeploymentName(n)) \notin pvcs
    /\ ServicesOf(services, n) = {}
    /\ ~\E s \in servers : s.serverName = n

ScenarioDone(rec) ==
    /\ rec.kind = "delete" /\ rec.pc = "done" /\ rec.status = 200
    /\ arrivals = Len(ScenarioKinds)

C20_CreateStoresOwnerRecord ==
    \A r \in Req :
        (req[r].kind = "create" /\ req[r].pc = "done" /\ req[r].status = 200)
        => \E s \in servers : s.serverName = req[r].name /\ s.ownerID = req[r].user

\* C21: a successful Restart leaves the workload object in place: the step
\* that completes it finds the deployment and leaves the same object (same
\* UID), changed in nothing but the restart marker of its pod template (and
\* the resource version the platform assigns); the request has made no
\* create and no delete call.
C21_RestartKeepsWorkload ==
    [][\A r \in Req :
          (/\ req[r].kind = "restart" /\ req[r].pc # "done"
           /\ req'[r].pc = "done" /\ req'[r].status = 200)
          => LET dn == DeploymentName(req[r].name) IN
             /\ Exists(deployments, dn) /\ Exists(deployments', dn)
             /\ Cardinality({d \in deployments' : d.name = dn}) = 1
             /\ LET old == Lookup(deployments, dn)
                    new == Lookup(deployments', dn)
                IN /\ new.uid = old.uid
                   /\ new = [old EXCEPT !.restartedAt = new.restartedAt, !.rv = new.rv]
                   /\ new.restartedAt \in Times
             /\ ~HasCall(req'[r], "CreateDeployment")
             /\ ~HasCall(req'[r], "DeleteDeployment")
             /\ ~HasCall(req'[r], "CreatePVC") /\ ~HasCall(req'[r], "DeletePVC")]_vars

\* A restart has succeeded on a deployment that carries the marker.
C21_Witness ==
    \E r \in Req :
        /\ req[r].kind = "restart" /\ req[r].pc = "done" /\ req[r].status = 200
        /\ Exists(deployments, DeploymentName(req[r].name))
        /\ Lookup(deployments, DeploymentName(req[r].name)).restartedAt # 0
        /\ Lookup(deployments, DeploymentName(req[r].name)).replicas = DefaultReplicas

\* Steps taken by the handler of a request of the given kind.
HandlerStep(r, kind) ==
    /\ req[r].kind = kind
    /\ req[r].pc \notin {"idle", "done"}
    /\ req'[r].calls # req[r].calls

\* UIDs of the deployments the platform holds.
WorkloadUIDs(deps) == {d.uid : d \in deps}

\* C22: StartStopped updates the existing workload object to the default
\* instance count (1) and neither deletes nor creates a workload: the step
\* that completes a start with 200 leaves the same object with replicas = 1
\* and nothing else changed; no step of a start changes the set of workload
\* objects; a start whose existence check finds no workload is answered 404
\* at once and changes nothing on the platform.
C22_StartRaisesExistingWorkload ==
    [][\A r \in Req :
          HandlerStep(r, "start")
          => LET dn == DeploymentName(req[r].name) IN
             /\ WorkloadUIDs(deployments') = WorkloadUIDs(deployments)
             /\ pvcs' = pvcs /\ services' = services
             /\ ~HasCall(req'[r], "CreateDeployment")
             /\ ~HasCall(req'[r], "DeleteDeployment")
             /\ (req'[r].pc = "done" /\ req'[r].status = 200)
                => /\ Exists(deployments, dn)
                   /\ LET old == Lookup(deployments, dn)
                          new == Lookup(deployments', dn)
                      IN new = [old EXCEPT !.replicas = DefaultReplicas, !.rv = new.rv]
             /\ (req[r].pc = "st_check" /\ ~Exists(deployments, dn))
                => /\ req'[r].pc = "done" /\ req'[r].status = 404
                   /\ Len(req'[r].calls) = 1
                   /\ UNCHANGED platform]_vars

\* A start has succeeded on a stopped server: the workload is back at one
\* instance and its pod has not started yet.
C22_Witness ==
    \E r \in Req :
        /\ req[r].kind = "start" /\ req[r].pc = "done" /\ req[r].status = 200
        /\ Exists(deployments, DeploymentName(req[r].name))
        /\ Lookup(deployments, DeploymentName(req[r].name)).replicas = DefaultReplicas
        /\ DeploymentName(req[r].name) \notin pods

\* A start of an absent server has been answered 404.
C22_WitnessAbsent ==
    \E r \in Req :
        /\ req[r].kind = "start" /\ req[r].pc = "done" /\ req[r].status = 404
        /\ ~req[r].calls[1].fault
        /\ deployments = {}

\* C23: Stop, Restart and StartStopped never delete or modify the volume
\* claim: no step of these handlers, successful or failing, changes the set
\* of volume claims, and none of them makes a call on a claim.
C23_ClaimUntouched ==
    [][\A r \in Req :
          (HandlerStep(r, "stop") \/ HandlerStep(r, "restart") \/ HandlerStep(r, "start"))
          => /\ pvcs' = pvcs
             /\ \A i \in 1..Len(req'[r].calls) :
                    req'[r].calls[i].op \notin {"GetPVC", "CreatePVC", "DeletePVC"}]_vars

\* A stop has failed at its scale-down; the claim that was there when the
\* request arrived is still in place.
C23_Witness ==
    \E r \in Req :
        /\ req[r].kind = "stop" /\ req[r].pc = "done" /\ req[r].status = 500
        /\ HasCall(req[r], "UpdateDeployment")
        /\ req[r].pvcAtStart
        /\ PVCNameOf(DeploymentName(req[r].name)) \in pvcs

C25_StreamBoundedAndCancellable ==
    [][\A r \in Req :
          (req[r].pc = "streaming" /\ req'[r].pc = "streaming")
          => /\ ~req[r].cancelled
             /\ req'[r].elapsed <= ExecTimeout]_vars

\* Tokens of every shape, with every expiry around the readings of the clock.
AllTokens ==
    [sub : {1}, exp : ZeroTime..(MaxTime + 1), sig : {"good", "bad"},
     alg : {"HS256", "HS512", "RS256", "none"}, form : {"jwt", "malformed"}]

\* A well-formed HMAC token whose signature verifies.
CorrectlySigned(tok) ==
    tok.form = "jwt" /\ tok.alg \in HMACMethods /\ tok.sig = "good"

\* C26: token validation returns the token-expired error for a correctly
\* signed token whose expiry has passed and the invalid-token error for a
\* token that is tampered, malformed or signed with a non-HMAC method,
\* whatever its expiry; a correctly signed token before its expiry is
\* accepted.  In the middleware both errors are answered 401, each with its
\* own message.
C26_ExpiredDistinctFromInvalid ==
    /\ \A tok \in AllTokens \cup Tokens, t \in Times :
        /\ (CorrectlySigned(tok) /\ tok.exp < t) => ValidateJWT(tok, t) = "expired"
        /\ ~CorrectlySigned(tok) => ValidateJWT(tok, t) = "invalid"
        /\ (CorrectlySigned(tok) /\ tok.exp > t) => ValidateJWT(tok, t) = "ok"
    /\ [][\A r \in Req :
             (req[r].pc = "jwt" /\ req'[r].pc # "jwt" /\ req'[r].auth.scheme = "Bearer")
             => LET tok == req'[r].auth.token IN
                /\ ~CorrectlySigned(tok)
                   => /\ req'[r].pc = "done" /\ req'[r].status = 401
                      /\ req'[r].error = "Invalid token"
                /\ (CorrectlySigned(tok) /\ tok.exp < 1)
                   => /\ req'[r].pc = "done" /\ req'[r].status = 401
                      /\ req'[r].error = "Token has expired"
                /\ (CorrectlySigned(tok) /\ tok.exp > MaxTime)
                   => req'[r].error \notin {"Invalid token", "Token has expired"}]_vars

\* One request has been refused for an expired token and another for a
\* token that is both tampered and past its expiry.
C26_Witness ==
    \E r, q \in Req :
        /\ req[r].pc = "done" /\ req[r].status = 401
        /\ req[r].error = "Token has expired" /\ CorrectlySigned(req[r].auth.token)
        /\ req[q].pc = "idle"

\* A tampered token past its expiry has been refused as invalid.
C26_WitnessTampered ==
    \E r \in Req :
        /\ req[r].pc = "done" /\ req[r].status = 401 /\ req[r].error = "Invalid token"
        /\ req[r].auth.token.sig = "bad" /\ req[r].auth.token.exp = ZeroTime

\* C27: for every active user who has logged in with the correct password,
\* the issued token passes token validation and its subject is the id under
\* which that user is stored.
C27_TokenDecodesToUserID ==
    \A r \in Req :
        (req[r].kind = "login" /\ req[r].pc = "done" /\ req[r].status = 200)
        => LET stored == UserByUsername(users, req[r].body.username) IN
           /\ stored = {req[r].token.sub}
           /\ req[r].userID = req[r].token.sub
           /\ users[req[r].token.sub].active
           /\ VerifyPassword(users[req[r].token.sub].passwordHash, req[r].body.password)
           /\ \A t \in Times : ValidateJWT(req[r].token, t) = "ok"

\* The administrator, whose permissions differ from their id, has logged in.
C27_Witness ==
    \E r \in Req :
        /\ req[r].kind = "login" /\ req[r].pc = "done" /\ req[r].status = 200
        /\ req[r].body.username = "admin"
        /\ req[r].token.sub = 1

\* C28: after a repeat identity-provider sign-in of an existing user has
\* gone through (the update of the user did not fail), the lastLogin stored
\* for that user is a time, and not earlier than that sign-in.
C28_RepeatSignInStoresLastLogin ==
    \A r \in Req :
        (/\ req[r].kind = "oauth" /\ req[r].pc = "done" /\ req[r].status = 307
         /\ req[r].repeat /\ ~LastDB(req[r]).fault)
        => /\ users[req[r].userID].lastLogin # NullTime
           /\ users[req[r].userID].lastLogin >= req[r].now

\* C29: a user stored by identity-provider sync (first sign-in of a
\* username the store does not know) has exactly the read-only permission
\* and is active.
C29_SyncedUserReadOnlyActive ==
    [][\A r \in Req :
          (req[r].kind = "oauth" /\ req[r].pc = "cu_insert" /\ req'[r].pc = "done")
          => \A id \in DOMAIN users' \ DOMAIN users :
                /\ users'[id].permissions = PermReadOnly
                /\ users'[id].active = TRUE
                /\ users'[id].username = req[r].body.username]_vars

\* A first sign-in has stored its user.
C29_Witness ==
    \E r \in Req :
        /\ req[r].kind = "oauth" /\ req[r].pc = "done" /\ req[r].status = 307
        /\ ~req[r].repeat
        /\ req[r].userID \in DOMAIN users \ DOMAIN AcctUsers
        /\ users[req[r].userID].username = req[r].body.username

\* No two users share a username or an email.
UniqueUsers ==
    \A a, b \in DOMAIN users :
        (users[a].username = users[b].username \/ users[a].email = users[b].email) => a = b

\* C30: a registration whose username or email is taken is answered 409
\* and stores no second user, also when the name was taken by a concurrent
\* registration between the two statements of CreateUser.
C30_DuplicateRegistrationConflicts ==
    /\ [][\A r \in Req :
             (/\ req[r].kind = "register" /\ req[r].pc \in {"cu_check", "cu_insert"}
              /\ req'[r].db # req[r].db /\ ~LastDB(req'[r]).fault
              /\ UserExists(users, req[r].copy.username, req[r].copy.email))
             => /\ req'[r].pc = "done" /\ req'[r].status = 409
                /\ users' = users]_vars
    /\ []UniqueUsers

C32_LookupFailureNotAbsence ==
    \A r \in Req :
        \A i \in 1..Len(req[r].calls) :
            LET call == req[r].calls[i] IN
            /\ ( /\ call.op = "GetDeployment" /\ call.fault
                 /\ i = Len(req[r].calls) /\ req[r].pc = "done" )
               => req[r].status = 500
            /\ ( /\ call.op = "GetPVC" /\ call.fault
                 /\ i < Len(req[r].calls) )
               => req[r].calls[i + 1].op # "CreatePVC"

\* ======================================================= server records
\* The minecraft_servers table of the Credential Store and the statements
\* that read and write it, each called with drawn arguments.  A statement
\* is one SQL statement, so one step.  In this specification `servers`
\* holds whole rows, `arrivals` is the table's serial counter and req[r]
\* is the last call of caller r with its outcome.
MaxRecords == 2

RecordNames == {"survival", "creative"}
RecordOwners == {1, 2}
RecordStatuses == {"running", "stopped"}
RecordTimes == {1, 2}

\* Every statement is atomic, so callers do not interleave inside one:
\* one caller issues the calls.
RecordCallers == {CHOOSE q \in Req : \A p \in Req : q <= p}

RecordIdle ==
    [pc |-> "idle", op |-> "none", serverName |-> "", ownerID |-> 0, ok |-> FALSE]

RecordInit ==
    /\ users = InitUsers
    /\ apiKeys = {}
    /\ servers = {}
    /\ dbType = "postgres"
    /\ pvcs = {}
    /\ deployments = {}
    /\ pods = {}
    /\ services = {}
    /\ rvNext = 1
    /\ arrivals = 0
    /\ faults = 0
    /\ req = [r \in Req |-> RecordIdle]

RecordCall(op, name, owner, ok) ==
    [pc |-> "done", op |-> op, serverName |-> name, ownerID |-> owner, ok |-> ok]

\* INSERT INTO minecraft_servers (...) VALUES (...) RETURNING id
InsertServer(rows, id, server, now) ==
    rows \cup {[id |-> id, serverName |-> server.serverName,
                deploymentName |-> server.deploymentName, pvcName |-> server.pvcName,
                ownerID |-> server.ownerID, status |-> server.status,
                createdAt |-> now, updatedAt |-> now]}

\* server_name is UNIQUE and owner_id REFERENCES users(id): the INSERT of
\* a taken name or of an unknown owner is an error.
CreateServerRecord(r) ==
    /\ arrivals < MaxRecords
    /\ \E n \in RecordNames, o \in RecordOwners, st \in RecordStatuses, now \in RecordTimes :
       \E fault \in FaultChoices :
        LET server == [serverName |-> n, deploymentName |-> DeploymentName(n),
                       pvcName |-> PVCNameOf(DeploymentName(n)), ownerID |-> o,
                       status |-> st]
            ok == /\ ~fault
                  /\ ~\E s \in servers : s.serverName = n
                  /\ o \in DOMAIN users
        IN /\ Injected(fault)
           /\ servers' = IF ok THEN InsertServer(servers, arrivals + 1, server, now)
                         ELSE servers
           /\ arrivals' = arrivals + 1
           /\ req' = [req EXCEPT ![r] = RecordCall("CreateServerRecord", n, o, ok)]
    /\ UNCHANGED <<users, apiKeys, dbType, platform>>

\* SELECT ... FROM minecraft_servers WHERE server_name = $1
GetServerByName(r) ==
    /\ \E n \in RecordNames : \E fault \in FaultChoices :
        LET found == ~fault /\ \E s \in servers : s.serverName = n
            row == CHOOSE s \in servers : s.serverName = n
        IN /\ Injected(fault)
           /\ req' = [req EXCEPT ![r] =
                  RecordCall("GetServerByName", n, IF found THEN row.ownerID ELSE 0,
                             found)]
    /\ UNCHANGED <<store, platform, arrivals>>

MutUpdateServerStatusRowClearsOwner(rows, serverName, status, now) ==
    {IF s.serverName = serverName
     THEN [s EXCEPT !.status = status, !.updatedAt = now, !.ownerID = 0]
     ELSE s : s \in rows}

\* UPDATE minecraft_servers SET status = $1, updated_at = $2 WHERE server_name = $3
UpdateServerStatusRow(rows, serverName, status, now) ==
    {IF s.serverName = serverName
     THEN [s EXCEPT !.status = status, !.updatedAt = now]
     ELSE s : s \in rows}

\* The statement's error is the only error: a name with no row is no error.
UpdateServerStatus(r) ==
    /\ \E n \in RecordNames, st \in RecordStatuses, now \in RecordTimes :
       \E fault \in FaultChoices :
        /\ Injected(fault)
        /\ servers' = IF fault THEN servers
                      ELSE UpdateServerStatusRow(servers, n, st, now)
        /\ req' = [req EXCEPT ![r] = RecordCall("UpdateServerStatus", n, 0, ~fault)]
    /\ UNCHANGED <<users, apiKeys, dbType, platform, arrivals>>

\* DELETE FROM minecraft_servers WHERE server_name = $1
DeleteServerRecord(r) ==
    /\ \E n \in RecordNames : \E fault \in FaultChoices :
        /\ Injected(fault)
        /\ servers' = IF fault THEN servers
                      ELSE {s \in servers : s.serverName # n}
        /\ req' = [req EXCEPT ![r] = RecordCall("DeleteServerRecord", n, 0, ~fault)]
    /\ UNCHANGED <<users, apiKeys, dbType, platform, arrivals>>

RecordNext ==
    \E r \in RecordCallers :
        \/ CreateServerRecord(r)
        \/ GetServerByName(r)
        \/ UpdateServerStatus(r)
        \/ DeleteServerRecord(r)

RecordSpec == RecordInit /\ [][RecordNext]_vars

\* C33: a server record keeps the ownerID its creation set for as long as
\* it is stored: a record that appears has the ownerID its CreateServerRecord
\* call was given, no step changes the ownerID (or the name) of a stored
\* record, and GetServerByName returns the stored ownerID.
C33_OwnerFixedAtCreation ==
    [][/\ \A s \in servers, t \in servers' :
             s.id = t.id => (t.ownerID = s.ownerID /\ t.serverName = s.serverName)
       /\ \A t \in servers' :
             (~\E s \in servers : s.id = t.id)
             => \E r \in Req : /\ req'[r].op = "CreateServerRecord" /\ req'[r].ok
                               /\ req'[r].serverName = t.serverName
                               /\ req'[r].ownerID = t.ownerID
       /\ \A r \in Req :
             (req'[r] # req[r] /\ req'[r].op = "GetServerByName" /\ req'[r].ok)
             => \E s \in servers : /\ s.serverName = req'[r].serverName
                                   /\ s.ownerID = req'[r].ownerID]_vars

\* A record created for one owner has had its status updated and has been
\* read back, while another record of another owner is stored.
C33_Witness ==
    \E s \in servers, t \in servers :
        /\ s.ownerID # t.ownerID
        /\ s.updatedAt # s.createdAt
        /\ \E r \in Req : /\ req[r].op = "GetServerByName" /\ req[r].ok
                          /\ req[r].serverName = s.serverName
                          /\ req[r].ownerID = s.ownerID

\* The step of request r is the Update call of a lifecycle read-modify-write.
UpdateStep(r) ==
    /\ req[r].kind \in {"stop", "start", "restart"}
    /\ Len(req'[r].calls) = Len(req[r].calls) + 1
    /\ req'[r].calls[Len(req'[r].calls)].op = "UpdateDeployment"

\* C34: interleaved Stop, StartStopped and Restart lose no update.  An
\* Update that succeeds was made from a copy of the version the platform
\* holds at that moment and changes nothing but the field its operation
\* sets (so a Restart never changes the instance count a Stop has set); an
\* Update made from an older copy changes nothing and its request is
\* answered 500.
C34_NoLostWorkloadUpdate ==
    [][\A r \in Req :
          UpdateStep(r)
          => LET dn == DeploymentName(req[r].name)
                 call == req'[r].calls[Len(req'[r].calls)]
             IN IF call.ok
                THEN /\ Exists(deployments, dn)
                     /\ LET old == Lookup(deployments, dn)
                            new == Lookup(deployments', dn)
                        IN /\ req[r].copy.rv = old.rv
                           /\ new.rv > old.rv
                           /\ IF req[r].kind = "restart"
                              THEN new = [old EXCEPT !.restartedAt = new.restartedAt,
                                                     !.rv = new.rv]
                              ELSE new = [old EXCEPT !.replicas = new.replicas,
                                                     !.rv = new.rv]
                ELSE /\ deployments' = deployments
                     /\ req'[r].pc = "done" /\ req'[r].status = 500]_vars

\* A Restart whose Update the platform refused for its version has been
\* answered 500, and the workload it had read at one instance holds the
\* instance count 0 a Stop stored in between, with no restart marker.
C34_Witness ==
    \E r \in Req :
        /\ req[r].kind = "restart" /\ req[r].pc = "done" /\ req[r].status = 500
        /\ LET call == req[r].calls[Len(req[r].calls)]
           IN call.op = "UpdateDeployment" /\ ~call.ok /\ ~call.fault
        /\ Exists(deployments, DeploymentName(req[r].name))
        /\ Lookup(deployments, DeploymentName(req[r].name)).replicas = 0
        /\ Lookup(deployments, DeploymentName(req[r].name)).restartedAt = 0

\* ====================================================== user management
\* The /users routes that write one user (UpdateUserHandler,
\* DeleteUserHandler, GrantUserPermissionsHandler,
\* RevokeUserPermissionsHandler) behind JWTMiddleware and
\* RequirePermission(PermAdmin), next to LoginHandler, on the users table
\* of the accounts.  Every statement sent to the database is one step, so
\* that a handler's read and its write interleave with the statements of
\* other requests.  No user is created here: the sequence of ids only
\* grows, so the id of a deleted user is not given out again.

BitOr(a, b) == a + b - BitAnd(a, b)
BitClear(a, b) == a - BitAnd(a, b)

\* user.Permissions |= perm.Permission, for each action of the body
RECURSIVE GrantAll(_, _)
GrantAll(permissions, actions) ==
    IF actions = <<>> THEN permissions
    ELSE GrantAll(BitOr(permissions, Head(actions)), Tail(actions))

\* user.Permissions &= ^perm.Permission, for each action of the body
RECURSIVE RevokeAll(_, _)
RevokeAll(permissions, actions) ==
    IF actions = <<>> THEN permissions
    ELSE RevokeAll(BitClear(permissions, Head(actions)), Tail(actions))

\* The :id of the path: the admin, carol, and an id no row has.
UserTargets == {1, 3, 6}

\* Bodies of the grant and revoke routes: the permissions to change.
PermissionLists == {<<PermAdmin>>, <<PermViewServer>>, <<PermStopServer, PermViewServer>>}

\* Bodies of PUT /users/:id.  permissions and active are pointers, absent
\* from the body or present: a sequence of no or one element.  The bodies
\* drawn leave username, email and password out.
UpdateBodies ==
    {[permissions |-> <<>>, active |-> <<FALSE>>],
     [permissions |-> <<PermReadOnly>>, active |-> <<>>],
     [permissions |-> <<PermAll>>, active |-> <<TRUE>>]}

UsersIdle ==
    [pc |-> "idle", kind |-> "none", body |-> NoObj, copy |-> NoObj, status |-> 0,
     resp |-> {}, error |-> "", db |-> <<>>, token |-> NoObj, userID |-> 0,
     now |-> 0, repeat |-> FALSE, auth |-> [scheme |-> Unread], user |-> 0,
     via |-> "", principal |-> NoObj, id |-> 0]

\* carol is a reader or a second administrator.
UsersInit ==
    /\ \E p \in {PermReadOnly, PermAll} : users = [AcctUsers EXCEPT ![3].permissions = p]
    /\ apiKeys = {}
    /\ servers = {}
    /\ dbType = "sqlite"
    /\ pvcs = {}
    /\ deployments = {}
    /\ pods = {}
    /\ services = {}
    /\ rvNext = 1
    /\ arrivals = 0
    /\ faults = 0
    /\ req = [r \in Req |-> UsersIdle]

UsersArrive(r) ==
    /\ At(r, "idle")
    /\ arrivals < MaxArrivals
    /\ \E k \in UserKinds \cup {"login"} :
        req' = [req EXCEPT ![r] =
                   [UsersIdle EXCEPT !.pc = IF k = "login" THEN "l_bind" ELSE "jwt",
                                     !.kind = k]]
    /\ arrivals' = arrivals + 1
    /\ UNCHANGED <<store, platform, faults>>

UsersRelease(r) ==
    /\ req[r].pc = "done"
    /\ req' = [req EXCEPT ![r] = UsersIdle]
    /\ UNCHANGED <<store, platform, arrivals, faults>>

\* DELETE FROM users WHERE id = ?: the statement's error is the only error
\* DeleteUser returns; the number of rows deleted is not looked at.
DeleteUserRow(rows, id) == [u \in DOMAIN rows \ {id} |-> rows[u]]

\* GetUserByID as the four handlers call it: ErrUserNotFound is answered
\* 404, any other error 500; the user read goes on to `change`.
GetUserByID(rec, id, fault, change) ==
    LET logged == LoggedDB([rec EXCEPT !.id = id],
                           Call("GetUserByID", ~fault /\ id \in DOMAIN users, fault))
    IN IF fault THEN RespondError(logged, 500, "Failed to get user")
       ELSE IF id \notin DOMAIN users THEN RespondError(logged, 404, "User not found")
       ELSE [logged EXCEPT !.copy = change]

\* UpdateUser as the three handlers call it: an error is answered 500.
UpdateUser(r, okKeys) ==
    \E fault \in FaultChoices :
        LET rec == req[r]
            logged == LoggedDB(rec, Call("UpdateUser", ~fault, fault))
        IN /\ Injected(fault)
           /\ users' = IF fault THEN users ELSE UpdateUserRow(users, rec.copy)
           /\ req' = [req EXCEPT ![r] =
                  IF fault THEN RespondError(logged, 500, "Failed to update user")
                  ELSE Respond(logged, 200, okKeys)]
           /\ UNCHANGED <<apiKeys, servers, dbType, platform, arrivals>>

\* ---- GrantUserPermissionsHandler
GrantGetUser(r) ==
    /\ At(r, "gr_get")
    /\ \/ /\ req' = [req EXCEPT ![r] = Respond(req[r], 400, {"error"})]
          /\ UNCHANGED faults
       \/ \E id \in UserTargets, actions \in PermissionLists, fault \in FaultChoices :
            LET rec == [req[r] EXCEPT !.body = [permissions |-> actions]]
                user == ScanUser(users, id)
                read == GetUserByID(rec, id, fault,
                            [user EXCEPT !.permissions = GrantAll(@, actions)])
            IN /\ Injected(fault)
               /\ req' = [req EXCEPT ![r] =
                      IF read.pc = "done" THEN read ELSE Goto(read, "gr_upd")]
    /\ UNCHANGED <<store, platform, arrivals>>

GrantUpdate(r) ==
    /\ At(r, "gr_upd")
    /\ UpdateUser(r, {"user_id", "username", "old_permissions", "new_permissions"})

\* ---- RevokeUserPermissionsHandler
RevokeGetUser(r) ==
    /\ At(r, "rv_get")
    /\ \/ /\ req' = [req EXCEPT ![r] = Respond(req[r], 400, {"error"})]
          /\ UNCHANGED faults
       \/ \E id \in UserTargets, actions \in PermissionLists, fault \in FaultChoices :
            LET rec == [req[r] EXCEPT !.body = [permissions |-> actions]]
                user == ScanUser(users, id)
                read == GetUserByID(rec, id, fault,
                            [user EXCEPT !.permissions = RevokeAll(@, actions)])
            IN /\ Injected(fault)
               /\ req' = [req EXCEPT ![r] =
                      IF read.pc = "done" THEN read ELSE Goto(read, "rv_upd")]
    /\ UNCHANGED <<store, platform, arrivals>>

RevokeUpdate(r) ==
    /\ At(r, "rv_upd")
    /\ UpdateUser(r, {"user_id", "username", "old_permissions", "new_permissions"})

\* ---- UpdateUserHandler
\* The fields present in the body replace those of the user read; only an
\* administrator may send permissions or active.
UpdateGetUser(r) ==
    /\ At(r, "up_get")
    /\ \/ /\ req' = [req EXCEPT ![r] = Respond(req[r], 400, {"error"})]
          /\ UNCHANGED faults
       \/ \E id \in UserTargets, b \in UpdateBodies, fault \in FaultChoices :
            LET rec == [req[r] EXCEPT !.body = b]
                isAdmin == BitAnd(rec.principal.permissions, PermAdmin) # 0
                isSelf == rec.user = id
                user == ScanUser(users, id)
                changed == [user EXCEPT
                    !.permissions = IF b.permissions = <<>> THEN @ ELSE b.permissions[1],
                    !.active = IF b.active = <<>> THEN @ ELSE b.active[1]]
                read == GetUserByID(rec, id, fault, changed)
            IN IF ~isAdmin /\ ~isSelf
               THEN /\ req' = [req EXCEPT ![r] = RespondError(rec, 403, "Permission denied")]
                    /\ UNCHANGED faults
               ELSE /\ Injected(fault)
                    /\ req' = [req EXCEPT ![r] =
                           IF read.pc = "done" THEN read
                           ELSE IF ~isAdmin /\ (b.permissions # <<>> \/ b.active # <<>>)
                                THEN Respond(read, 403, {"error"})
                           ELSE Goto(read, "up_upd")]
    /\ UNCHANGED <<store, platform, arrivals>>

UpdateUserStep(r) ==
    /\ At(r, "up_upd")
    /\ UpdateUser(r, {"id", "username", "email", "permissions", "active",
                      "last_login", "updated_at"})

\* ---- DeleteUserHandler
DeleteUserHandler(r) ==
    /\ At(r, "du_delete")
    /\ \/ /\ req' = [req EXCEPT ![r] = Respond(req[r], 400, {"error"})]
          /\ UNCHANGED <<users, faults>>
       \/ \E id \in UserTargets, fault \in FaultChoices :
            LET rec == [req[r] EXCEPT !.id = id]
                logged == LoggedDB(rec, Call("DeleteUser", ~fault, fault))
            IN IF rec.user = id
               THEN /\ req' = [req EXCEPT ![r] =
                           RespondError(rec, 400, "Cannot delete your own account")]
                    /\ UNCHANGED <<users, faults>>
               ELSE /\ Injected(fault)
                    /\ users' = IF fault THEN users ELSE DeleteUserRow(users, id)
                    /\ req' = [req EXCEPT ![r] =
                           IF fault THEN RespondError(logged, 500, "Failed to delete user")
                           ELSE Respond(logged, 200, {"message"})]
    /\ UNCHANGED <<apiKeys, servers, dbType, platform, arrivals>>

UsersNext ==
    \E r \in Req :
        \/ UsersArrive(r)
        \/ UsersRelease(r)
        \/ JWTMiddleware(r)
        \/ RequirePermission(r)
        \/ GrantGetUser(r)
        \/ GrantUpdate(r)
        \/ RevokeGetUser(r)
        \/ RevokeUpdate(r)
        \/ UpdateGetUser(r)
        \/ UpdateUserStep(r)
        \/ DeleteUserHandler(r)
        \/ LoginBind(r)
        \/ LoginGetUser(r)
        \/ LoginUpdate(r)

UsersSpec == UsersInit /\ [][UsersNext]_vars

\* C31: a delete of a user id that no row of the users table has is
\* answered 404.
C31_DeleteAbsentUserNotFound ==
    [][\A r \in Req :
          ( /\ req[r].pc = "du_delete" /\ req'[r].pc = "done"
            /\ req'[r].id # 0 /\ req'[r].id \notin DOMAIN users )
          => req'[r].status = 404]_vars

C35_WitnessDeleted ==
    \E r \in Req :
        /\ req[r].pc = "done" /\ req[r].status = 401
        /\ ValidBearer(req[r].auth) /\ req[r].auth.token.sub = 3
        /\ 3 \notin DOMAIN users

\* carol has been deactivated, and her request with her token is answered
\* 403 before any permission is looked at.
C35_WitnessInactive ==
    \E r \in Req :
        /\ req[r].pc = "done" /\ req[r].status = 403
        /\ ValidBearer(req[r].auth) /\ req[r].auth.token.sub = 3
        /\ req[r].error = "User account is inactive"
        /\ 3 \in DOMAIN users /\ ~users[3].active

\* The step is taken by request r.
StepOf(r) == req'[r] # req[r]

\* The permissions and the active flag of every user that stays stored are
\* as they were.
RightsUnchanged ==
    \A u \in DOMAIN users \cap DOMAIN users' :
        /\ users'[u].permissions = users[u].permissions
        /\ users'[u].active = users[u].active

\* C36: no step of a password login changes any user's stored permissions
\* or active flag, whatever administrators' Grant, Revoke and Update
\* requests have written while the login was in progress.
C36_SignInKeepsRights ==
    [][\A r \in Req : (StepOf(r) /\ req[r].kind = "login") => RightsUnchanged]_vars

\* C37: stored permissions and active flags change only in steps of
\* requests authenticated as an administrator, and a user who appears in
\* the table has exactly the read-only permission.
C37_OnlyAdminsChangeRights ==
    [][\A r \in Req :
          StepOf(r)
          => /\ \/ RightsUnchanged
                \/ /\ req[r].principal # NoObj
                   /\ BitAnd(req[r].principal.permissions, PermAdmin) # 0
             /\ \A u \in DOMAIN users' \ DOMAIN users :
                   users'[u].permissions = PermReadOnly]_vars

\* C38: an identity-provider sign-in that ends with a token has issued it
\* for an account that the sync itself created (an account holding the
\* random password only SyncOAuthUser gives), never for a seeded or a
\* password-registered user whose username the external identity carries.
C38_SignInOnlyForSyncedAccounts ==
    \A r \in Req :
        (req[r].kind = "oauth" /\ req[r].pc = "done" /\ req[r].status = 307)
        => /\ req[r].token.sub \in DOMAIN users
           /\ users[req[r].token.sub].passwordHash = HashPassword("random")

\* C39: a Grant or a Revoke answered 200 has applied its change to the
\* permissions the table held when it wrote, so that a change another
\* request stored since this one read the user is still there.
C39_PermissionChangesCompose ==
    [][\A r \in Req :
          ( /\ req[r].pc \in {"gr_upd", "rv_upd"}
            /\ req'[r].pc = "done" /\ req'[r].status = 200
            /\ req[r].id \in DOMAIN users )
          => users'[req[r].id].permissions =
                IF req[r].kind = "grant"
                THEN GrantAll(users[req[r].id].permissions, req[r].body.permissions)
                ELSE RevokeAll(users[req[r].id].permissions, req[r].body.permissions)]_vars

====
